---- MODULE Spec2Model ----
(***************************************************************************)
(* Model of the GameTime Hero RSVP manager: RsvpService (the in-memory     *)
(* store with lazy loading and whole-snapshot persistence), RsvpValidator  *)
(* and FileStorage.                                                        *)
(*                                                                         *)
(* A JavaScript Map is modelled as the sequence of its <<key, value>>      *)
(* pairs in insertion order, which is also what FileStorage.save writes.   *)
(* A date value is a record [k, t]: k = "Date" for a Date object at        *)
(* instant t, k = "string" for the ISO string JSON.stringify makes of it   *)
(* (and JSON.parse gives back), k = "undefined" for an absent field.       *)
(***************************************************************************)
EXTENDS Integers, Sequences, FiniteSets, TLC

VARIABLES
    rsvpEntries,   \* RsvpService.rsvpEntries : Map<string, RsvpEntry>
    events,        \* RsvpService.events      : Map<string, Event>
    waitlist,      \* RsvpService.waitlist    : Map<string, WaitlistEntry[]>
    reminders,     \* RsvpService.reminders   : Map<string, EventReminder>
    initialized,   \* RsvpService.initialized
    file,          \* content of rsvp-data.json, or NoFile
    now,           \* the clock read by new Date() / Date.now(), in days
    last,          \* the last call made on the service and its outcome
    calls,         \* number of calls made on the service so far
    inflight       \* calls started and not yet settled, each with its position

vars == <<rsvpEntries, events, waitlist, reminders, initialized, file, now, last, calls,
          inflight>>

(***************************************************************************)
(* Bounds of the model.                                                    *)
(***************************************************************************)
MaxNow == 3
MaxCapacity == 2

EventIds == {"e1", "e2"}
OneEvent == {"e1"}

(***************************************************************************)
(* Dates.                                                                  *)
(***************************************************************************)
DateObj(t) == [k |-> "Date", t |-> t]
IsoString(t) == [k |-> "string", t |-> t]
NoDate == [k |-> "undefined", t |-> 0]
\* an absent optional string field or argument
Undefined == "<undefined>"
NoNotes == Undefined

\* x instanceof Date
IsDate(d) == d.k = "Date"

\* JSON.stringify of a date-typed field: a Date becomes its ISO string
ToJSON(d) == IF d.k = "Date" THEN IsoString(d.t) ELSE d

\* a < b where b is a Date: a string operand converts to NaN, so the
\* comparison is false
DateLess(a, b) == IsDate(a) /\ a.t < b.t

\* a <= b where b is a Date
DateLeq(a, b) == IsDate(a) /\ a.t <= b.t

\* a >= b where b is a Date
DateGeq(a, b) == IsDate(a) /\ a.t >= b.t

(***************************************************************************)
(* Map operations on sequences of <<key, value>> pairs.                    *)
(***************************************************************************)
MapHas(m, k) == \E i \in DOMAIN m : m[i][1] = k
MapIdx(m, k) == CHOOSE i \in DOMAIN m : m[i][1] = k
MapGet(m, k) == m[MapIdx(m, k)][2]
\* Map.prototype.set moving a key that is already present to the end
MapSet_MovesToEnd(m, k, v) == Append(SelectSeq(m, LAMBDA e : e[1] # k), <<k, v>>)

MapSet(m, k, v) ==
    IF MapHas(m, k) THEN [m EXCEPT ![MapIdx(m, k)] = <<k, v>>]
    ELSE Append(m, <<k, v>>)
MapDelete(m, k) == SelectSeq(m, LAMBDA e : e[1] # k)
MapValues(m) == [i \in DOMAIN m |-> m[i][2]]

\* new Map(list): later pairs overwrite earlier ones with the same key
RECURSIVE MapFromEntries(_)
MapFromEntries(list) ==
    IF list = <<>> THEN <<>>
    ELSE LET n == Len(list)
         IN MapSet(MapFromEntries(SubSeq(list, 1, n - 1)), list[n][1], list[n][2])

\* Array.prototype.sort((a, b) => a.t - b.t) on <<t, value>> pairs: stable
RECURSIVE InsertByTime(_, _)
InsertByTime(sorted, x) ==
    IF sorted = <<>> THEN <<x>>
    ELSE IF sorted[Len(sorted)][1] <= x[1] THEN Append(sorted, x)
    ELSE Append(InsertByTime(SubSeq(sorted, 1, Len(sorted) - 1), x), sorted[Len(sorted)])

RECURSIVE SortByTime(_)
SortByTime(s) ==
    IF s = <<>> THEN <<>>
    ELSE InsertByTime(SortByTime(SubSeq(s, 1, Len(s) - 1)), s[Len(s)])

(***************************************************************************)
(* RsvpValidator.                                                          *)
(***************************************************************************)
\* String.prototype.trim on the strings of the model
Trim(s) == IF s \in {"", " "} THEN "" ELSE s

isValidEmail(email) == email \in {"a@x.io"}

\* the message of the ValidationError thrown, "" when the player is valid
validatePlayer(player) ==
    IF player.id = "" THEN "Player ID is required and must be a string"
    ELSE IF player.name = "" \/ Trim(player.name) = ""
        THEN "Player name is required and must be a non-empty string"
    ELSE IF player.email = "" \/ ~isValidEmail(player.email)
        THEN "Valid email is required"
    ELSE ""

Statuses == {"Yes", "No", "Maybe"}

\* validateRsvpStatus letting every status through
validateRsvpStatus_AcceptsAll(status) == ""

validateRsvpStatus(status) ==
    IF status \notin Statuses THEN "Invalid RSVP status" ELSE ""

\* Numbers: an integer is itself; the non-integer k / 2 (k odd, positive) is
\* written 1000 + k, above every integer of the model
Half(k) == 1000 + k

\* Number.isInteger
IsInteger(n) == n < 1000

\* n < k for a number n and an integer k
NumLess(n, k) == IF IsInteger(n) THEN n < k ELSE n - 1000 < 2 * k

\* validateEvent without the Number.isInteger test
validateEvent_NoIntegerTest(event, t) ==
    IF event.id = "" THEN "Event ID is required and must be a string"
    ELSE IF event.name = "" \/ Trim(event.name) = ""
        THEN "Event name is required and must be a non-empty string"
    ELSE IF event.description = "" \/ Trim(event.description) = ""
        THEN "Event description is required and must be a non-empty string"
    ELSE IF event.date.k = "undefined" \/ ~IsDate(event.date)
        THEN "Valid event date is required"
    ELSE IF event.date.t < t THEN "Event date cannot be in the past"
    ELSE IF event.location = "" \/ Trim(event.location) = ""
        THEN "Event location is required and must be a non-empty string"
    ELSE IF NumLess(event.maxPlayers, 1) THEN "maxPlayers must be a positive integer"
    ELSE ""

validateEvent(event, t) ==
    IF event.id = "" THEN "Event ID is required and must be a string"
    ELSE IF event.name = "" \/ Trim(event.name) = ""
        THEN "Event name is required and must be a non-empty string"
    ELSE IF event.description = "" \/ Trim(event.description) = ""
        THEN "Event description is required and must be a non-empty string"
    ELSE IF event.date.k = "undefined" \/ ~IsDate(event.date)
        THEN "Valid event date is required"
    ELSE IF event.date.t < t THEN "Event date cannot be in the past"
    ELSE IF event.location = "" \/ Trim(event.location) = ""
        THEN "Event location is required and must be a non-empty string"
    ELSE IF NumLess(event.maxPlayers, 1) \/ ~IsInteger(event.maxPlayers)
        THEN "maxPlayers must be a positive integer"
    ELSE ""

(***************************************************************************)
(* FileStorage.                                                            *)
(***************************************************************************)
NoFile == [exists |-> FALSE, rsvpEntries |-> <<>>, events |-> <<>>,
           waitlist |-> <<>>, reminders |-> <<>>]

JsonEvent(e) == [e EXCEPT !.date = ToJSON(e.date)]
JsonEntry(r) == [r EXCEPT !.updatedAt = ToJSON(r.updatedAt)]
JsonWaitlistEntry(w) ==
    [w EXCEPT !.joinedAt = ToJSON(w.joinedAt), !.notifiedAt = ToJSON(w.notifiedAt)]
JsonReminder(r) ==
    [r EXCEPT !.lastSentAt = ToJSON(r.lastSentAt), !.nextSendAt = ToJSON(r.nextSendAt)]

\* JSON.stringify of Array.from(map.entries()) for each of the four maps
Serialize(data) ==
    [exists |-> TRUE,
     rsvpEntries |-> [i \in DOMAIN data.rsvpEntries |->
                        <<data.rsvpEntries[i][1], JsonEntry(data.rsvpEntries[i][2])>>],
     events |-> [i \in DOMAIN data.events |->
                        <<data.events[i][1], JsonEvent(data.events[i][2])>>],
     waitlist |-> [i \in DOMAIN data.waitlist |->
                        <<data.waitlist[i][1],
                          [j \in DOMAIN data.waitlist[i][2] |->
                              JsonWaitlistEntry(data.waitlist[i][2][j])]>>],
     reminders |-> [i \in DOMAIN data.reminders |->
                        <<data.reminders[i][1], JsonReminder(data.reminders[i][2])>>]]

\* FileStorage.save: the file content after a successful write
save(data) == Serialize(data)

\* FileStorage.load: empty maps when the file does not exist, else
\* JSON.parse and new Map(...) of each list; no field is revived
load(f) ==
    IF ~f.exists
    THEN [rsvpEntries |-> <<>>, events |-> <<>>, waitlist |-> <<>>, reminders |-> <<>>]
    ELSE [rsvpEntries |-> MapFromEntries(f.rsvpEntries),
          events |-> MapFromEntries(f.events),
          waitlist |-> MapFromEntries(f.waitlist),
          reminders |-> MapFromEntries(f.reminders)]

(***************************************************************************)
(* RsvpService: the store as a record, and its private helpers.            *)
(***************************************************************************)
Self == [rsvpEntries |-> rsvpEntries, events |-> events, waitlist |-> waitlist,
         reminders |-> reminders, initialized |-> initialized, file |-> file]

\* the four in-memory collections of a store
Data(s) == [rsvpEntries |-> s.rsvpEntries, events |-> s.events,
            waitlist |-> s.waitlist, reminders |-> s.reminders]

\* a new RsvpService: no call started, no mutation applied, nothing reported
\* (issued, landed: the number of the last snapshot handed to writeFile and of
\* the last one written; overlap: a snapshot was handed over while another
\* was being written; refused: a call has thrown)
NoInFlight == [ops |-> <<>>, mutated |-> FALSE, done |-> {}, issued |-> 0, landed |-> 0,
               overlap |-> FALSE, refused |-> FALSE]

\* what a call returns: a record with one field that names the kind of value
NoRet == [none |-> TRUE]

\* outcome of a call: the store after it, the kind of error thrown ("ok" if
\* none), its message, the value returned, and how often load() and save()
\* were invoked
Outcome(s, res, msg, ret, loads, saves) ==
    [s |-> s, res |-> res, msg |-> msg, ret |-> ret, loads |-> loads, saves |-> saves,
     loadFailed |-> FALSE, saveFailed |-> FALSE]

\* the catch block of a public operation after ensureInitialized threw
InitFailure(s, msg) ==
    [s |-> s, res |-> "RsvpError", msg |-> msg, ret |-> NoRet, loads |-> 1, saves |-> 0,
     loadFailed |-> TRUE, saveFailed |-> FALSE]

\* the catch block letting the error of saveData through as it is
SaveFailure_Rethrown(s, msg, loads) ==
    [s |-> s, res |-> "StorageError", msg |-> msg, ret |-> NoRet, loads |-> loads, saves |-> 1,
     loadFailed |-> FALSE, saveFailed |-> TRUE]

\* the catch block of a public operation after saveData threw: the store
\* keeps the mutation and the call fails with RsvpError
SaveFailure(s, msg, loads) ==
    [s |-> s, res |-> "RsvpError", msg |-> msg, ret |-> NoRet, loads |-> loads, saves |-> 1,
     loadFailed |-> FALSE, saveFailed |-> TRUE]

\* ensureInitialized marking the instance initialized when load() threw
ensureInitialized_MarksFailedLoad(s, io) ==
    IF s.initialized THEN [s |-> s, ok |-> TRUE, loads |-> 0]
    ELSE IF io.load \/ ~s.file.exists
        THEN LET data == load(s.file)
             IN [s |-> [s EXCEPT !.rsvpEntries = data.rsvpEntries,
                                 !.events = data.events,
                                 !.waitlist = data.waitlist,
                                 !.reminders = data.reminders,
                                 !.initialized = TRUE],
                 ok |-> TRUE, loads |-> 1]
        ELSE [s |-> [s EXCEPT !.initialized = TRUE], ok |-> FALSE, loads |-> 1]

\* ensureInitialized: io.load tells whether storage.load() succeeds
ensureInitialized(s, io) ==
    IF s.initialized THEN [s |-> s, ok |-> TRUE, loads |-> 0]
    ELSE IF io.load \/ ~s.file.exists
        THEN LET data == load(s.file)
             IN [s |-> [s EXCEPT !.rsvpEntries = data.rsvpEntries,
                                 !.events = data.events,
                                 !.waitlist = data.waitlist,
                                 !.reminders = data.reminders,
                                 !.initialized = TRUE],
                 ok |-> TRUE, loads |-> 1]
        ELSE [s |-> s, ok |-> FALSE, loads |-> 1]

\* saveData passing three of the four collections to storage.save
saveData_OmitsWaitlist(s, io) ==
    IF io.save THEN [s |-> [s EXCEPT !.file = save([Data(s) EXCEPT !.waitlist = <<>>])],
                     ok |-> TRUE]
    ELSE [s |-> s, ok |-> FALSE]

\* saveData: io.save tells whether storage.save() succeeds; a failed write
\* leaves the file as it was
saveData(s, io) ==
    IF io.save THEN [s |-> [s EXCEPT !.file = save(Data(s))], ok |-> TRUE]
    ELSE [s |-> s, ok |-> FALSE]

Key(eventId, playerId) == eventId \o "-" \o playerId

\* the entries with status 'Yes', in map order
YesEntries(s) == SelectSeq(MapValues(s.rsvpEntries), LAMBDA e : e.status = "Yes")

\* the comparator of the sorts calls getTime() on both operands: it throws
\* a TypeError when it is called at all (two or more elements) and one of
\* the dates is a string
SortThrows(dates) == Len(dates) >= 2 /\ \E i \in DOMAIN dates : ~IsDate(dates[i])

SortedByUpdatedAt(entries) ==
    LET pairs == [i \in DOMAIN entries |-> <<entries[i].updatedAt.t, entries[i]>>]
        sorted == SortByTime(pairs)
    IN [i \in DOMAIN sorted |-> sorted[i][2]]

\* getConfirmedAttendees: ok = FALSE when it throws RsvpError
getConfirmedAttendees(s) ==
    LET yes == YesEntries(s)
    IN IF SortThrows([i \in DOMAIN yes |-> yes[i].updatedAt])
       THEN [ok |-> FALSE, list |-> <<>>]
       ELSE [ok |-> TRUE, list |-> SortedByUpdatedAt(yes)]

\* getPlayerById: the player of the first entry with that player id
getPlayerById(s, playerId) ==
    LET found == SelectSeq(MapValues(s.rsvpEntries), LAMBDA e : e.player.id = playerId)
    IN IF found = <<>> THEN [found |-> FALSE, player |-> [id |-> "", name |-> "", email |-> ""]]
       ELSE [found |-> TRUE, player |-> found[1].player]

(***************************************************************************)
(* RsvpService: public operations as functions of the store.               *)
(***************************************************************************)
\* createEvent storing the event before it validates it
createEventOn_StoresFirst(s, event, t, io) ==
    LET init == ensureInitialized(s, io)
        s1 == init.s
        verdict == validateEvent(event, t)
        s2 == [s1 EXCEPT !.events = MapSet(s1.events, event.id, event)]
        saved == saveData(s2, io)
    IN IF ~init.ok THEN InitFailure(s1, "Failed to create event")
       ELSE IF verdict # "" THEN Outcome(s2, "ValidationError", verdict, NoRet, init.loads, 0)
       ELSE IF ~saved.ok THEN SaveFailure(s2, "Failed to create event", init.loads)
       ELSE Outcome(saved.s, "ok", "", [event |-> event], init.loads, 1)

\* createEvent dropping the RSVP entries of an event it replaces
createEventOn_ResetsRsvps(s, event, t, io) ==
    LET init == ensureInitialized(s, io)
        s1 == init.s
        verdict == validateEvent(event, t)
        s2 == [s1 EXCEPT !.events = MapSet(s1.events, event.id, event),
                         !.rsvpEntries = SelectSeq(s1.rsvpEntries,
                                            LAMBDA e : e[2].eventId # event.id)]
        saved == saveData(s2, io)
    IN IF ~init.ok THEN InitFailure(s1, "Failed to create event")
       ELSE IF verdict # "" THEN Outcome(s1, "ValidationError", verdict, NoRet, init.loads, 0)
       ELSE IF NumLess(event.maxPlayers, 1)
           THEN Outcome(s1, "ValidationError", "maxPlayers must be a positive number",
                        NoRet, init.loads, 0)
       ELSE IF ~saved.ok THEN SaveFailure(s2, "Failed to create event", init.loads)
       ELSE Outcome(saved.s, "ok", "", [event |-> event], init.loads, 1)

createEventOn(s, event, t, io) ==
    LET init == ensureInitialized(s, io)
        s1 == init.s
        verdict == validateEvent(event, t)
        s2 == [s1 EXCEPT !.events = MapSet(s1.events, event.id, event)]
        saved == saveData(s2, io)
    IN IF ~init.ok THEN InitFailure(s1, "Failed to create event")
       ELSE IF verdict # "" THEN Outcome(s1, "ValidationError", verdict, NoRet, init.loads, 0)
       ELSE IF NumLess(event.maxPlayers, 1)
           THEN Outcome(s1, "ValidationError", "maxPlayers must be a positive number",
                        NoRet, init.loads, 0)
       ELSE IF ~saved.ok THEN SaveFailure(s2, "Failed to create event", init.loads)
       ELSE Outcome(saved.s, "ok", "", [event |-> event], init.loads, 1)

updateRsvpOn(s, eventId, player, status, notes, t, io) ==
    LET init == ensureInitialized(s, io)
        s1 == init.s
        playerVerdict == validatePlayer(player)
        statusVerdict == validateRsvpStatus(status)
        confirmed == getConfirmedAttendees(s1)
        entry == [eventId |-> eventId, player |-> player, status |-> status,
                  updatedAt |-> DateObj(t), notes |-> notes]
        s2 == [s1 EXCEPT !.rsvpEntries = MapSet(s1.rsvpEntries, Key(eventId, player.id), entry)]
        saved == saveData(s2, io)
        failed == "Failed to update RSVP"
    IN IF ~init.ok THEN InitFailure(s1, failed)
       ELSE IF ~MapHas(s1.events, eventId)
           THEN Outcome(s1, "ValidationError", "Event not found", NoRet, init.loads, 0)
       ELSE IF playerVerdict # ""
           THEN Outcome(s1, "ValidationError", playerVerdict, NoRet, init.loads, 0)
       ELSE IF statusVerdict # ""
           THEN Outcome(s1, "ValidationError", statusVerdict, NoRet, init.loads, 0)
       ELSE IF status = "Yes" /\ ~confirmed.ok
           THEN Outcome(s1, "RsvpError", failed, NoRet, init.loads, 0)
       ELSE IF status = "Yes" /\ Len(confirmed.list) >= MapGet(s1.events, eventId).maxPlayers
           THEN Outcome(s1, "ValidationError", "Event is at maximum capacity",
                        NoRet, init.loads, 0)
       ELSE IF ~saved.ok THEN SaveFailure(s2, failed, init.loads)
       ELSE Outcome(saved.s, "ok", "", [entry |-> entry], init.loads, 1)

\* { ...event, ...update }: update.has names the fields the update supplies
MergeEvent(event, update) ==
    [event EXCEPT
        !.name = IF "name" \in update.has THEN update.name ELSE @,
        !.description = IF "description" \in update.has THEN update.description ELSE @,
        !.date = IF "date" \in update.has THEN update.date ELSE @,
        !.location = IF "location" \in update.has THEN update.location ELSE @,
        !.maxPlayers = IF "maxPlayers" \in update.has THEN update.maxPlayers ELSE @]

updateEventOn(s, eventId, update, t, io) ==
    LET init == ensureInitialized(s, io)
        s1 == init.s
        updatedEvent == MergeEvent(MapGet(s1.events, eventId), update)
        verdict == validateEvent(updatedEvent, t)
        s2 == [s1 EXCEPT !.events = MapSet(s1.events, eventId, updatedEvent)]
        saved == saveData(s2, io)
        failed == "Failed to update event"
    IN IF ~init.ok THEN InitFailure(s1, failed)
       ELSE IF ~MapHas(s1.events, eventId)
           THEN Outcome(s1, "ValidationError", "Event not found", NoRet, init.loads, 0)
       ELSE IF verdict # "" THEN Outcome(s1, "ValidationError", verdict, NoRet, init.loads, 0)
       ELSE IF ~saved.ok THEN SaveFailure(s2, failed, init.loads)
       ELSE Outcome(saved.s, "ok", "", [event |-> updatedEvent], init.loads, 1)

\* deleteEvent without the loop that removes the RSVPs of the event
WithoutEvent_NoCascade(entries, eventId) == entries

\* the entries that are left when those of one event are deleted
WithoutEvent(entries, eventId) == SelectSeq(entries, LAMBDA e : e[2].eventId # eventId)

\* deleteEvent removing the waitlist and the reminder of the event as well
deleteEventOn_CascadesAll(s, eventId, io) ==
    LET init == ensureInitialized(s, io)
        s1 == init.s
        s2 == [s1 EXCEPT !.rsvpEntries = WithoutEvent(s1.rsvpEntries, eventId),
                         !.events = MapDelete(s1.events, eventId),
                         !.waitlist = MapDelete(s1.waitlist, eventId),
                         !.reminders = MapDelete(s1.reminders, eventId)]
        saved == saveData(s2, io)
        failed == "Failed to delete event"
    IN IF ~init.ok THEN InitFailure(s1, failed)
       ELSE IF ~MapHas(s1.events, eventId)
           THEN Outcome(s1, "ValidationError", "Event not found", NoRet, init.loads, 0)
       ELSE IF ~saved.ok THEN SaveFailure(s2, failed, init.loads)
       ELSE Outcome(saved.s, "ok", "", NoRet, init.loads, 1)

deleteEventOn(s, eventId, io) ==
    LET init == ensureInitialized(s, io)
        s1 == init.s
        s2 == [s1 EXCEPT !.rsvpEntries = WithoutEvent(s1.rsvpEntries, eventId),
                         !.events = MapDelete(s1.events, eventId)]
        saved == saveData(s2, io)
        failed == "Failed to delete event"
    IN IF ~init.ok THEN InitFailure(s1, failed)
       ELSE IF ~MapHas(s1.events, eventId)
           THEN Outcome(s1, "ValidationError", "Event not found", NoRet, init.loads, 0)
       ELSE IF ~saved.ok THEN SaveFailure(s2, failed, init.loads)
       ELSE Outcome(saved.s, "ok", "", NoRet, init.loads, 1)

cancelRsvpOn(s, eventId, playerId, io) ==
    LET init == ensureInitialized(s, io)
        s1 == init.s
        key == Key(eventId, playerId)
        s2 == [s1 EXCEPT !.rsvpEntries = MapDelete(s1.rsvpEntries, key)]
        saved == saveData(s2, io)
        failed == "Failed to cancel RSVP"
    IN IF ~init.ok THEN InitFailure(s1, failed)
       ELSE IF ~MapHas(s1.rsvpEntries, key)
           THEN Outcome(s1, "ValidationError", "RSVP not found", NoRet, init.loads, 0)
       ELSE IF ~saved.ok THEN SaveFailure(s2, failed, init.loads)
       ELSE Outcome(saved.s, "ok", "", NoRet, init.loads, 1)

\* { ...player, ...update }
MergePlayer(player, update) ==
    [player EXCEPT
        !.name = IF "name" \in update.has THEN update.name ELSE @,
        !.email = IF "email" \in update.has THEN update.email ELSE @]

\* updatePlayer rewriting the first entry of the player only
updatePlayerOn_FirstEntryOnly(s, playerId, update, io) ==
    LET init == ensureInitialized(s, io)
        s1 == init.s
        found == getPlayerById(s1, playerId)
        updatedPlayer == MergePlayer(found.player, update)
        verdict == validatePlayer(updatedPlayer)
        first == CHOOSE i \in DOMAIN s1.rsvpEntries :
                    /\ s1.rsvpEntries[i][2].player.id = playerId
                    /\ \A j \in 1 .. i - 1 : s1.rsvpEntries[j][2].player.id # playerId
        s2 == [s1 EXCEPT !.rsvpEntries[first][2].player = updatedPlayer]
        saved == saveData(s2, io)
        failed == "Failed to update player"
    IN IF ~init.ok THEN InitFailure(s1, failed)
       ELSE IF ~found.found
           THEN Outcome(s1, "ValidationError", "Player not found", NoRet, init.loads, 0)
       ELSE IF verdict # "" THEN Outcome(s1, "ValidationError", verdict, NoRet, init.loads, 0)
       ELSE IF ~saved.ok THEN SaveFailure(s2, failed, init.loads)
       ELSE Outcome(saved.s, "ok", "", NoRet, init.loads, 1)

updatePlayerOn(s, playerId, update, io) ==
    LET init == ensureInitialized(s, io)
        s1 == init.s
        found == getPlayerById(s1, playerId)
        updatedPlayer == MergePlayer(found.player, update)
        verdict == validatePlayer(updatedPlayer)
        s2 == [s1 EXCEPT !.rsvpEntries =
                 [i \in DOMAIN s1.rsvpEntries |->
                    IF s1.rsvpEntries[i][2].player.id = playerId
                    THEN <<s1.rsvpEntries[i][1],
                           [s1.rsvpEntries[i][2] EXCEPT !.player = updatedPlayer]>>
                    ELSE s1.rsvpEntries[i]]]
        saved == saveData(s2, io)
        failed == "Failed to update player"
    IN IF ~init.ok THEN InitFailure(s1, failed)
       ELSE IF ~found.found
           THEN Outcome(s1, "ValidationError", "Player not found", NoRet, init.loads, 0)
       ELSE IF verdict # "" THEN Outcome(s1, "ValidationError", verdict, NoRet, init.loads, 0)
       ELSE IF ~saved.ok THEN SaveFailure(s2, failed, init.loads)
       ELSE Outcome(saved.s, "ok", "", NoRet, init.loads, 1)

removePlayerOn(s, playerId, io) ==
    LET init == ensureInitialized(s, io)
        s1 == init.s
        s2 == [s1 EXCEPT !.rsvpEntries =
                 SelectSeq(s1.rsvpEntries, LAMBDA e : e[2].player.id # playerId)]
        saved == saveData(s2, io)
        failed == "Failed to remove player"
    IN IF ~init.ok THEN InitFailure(s1, failed)
       ELSE IF ~getPlayerById(s1, playerId).found
           THEN Outcome(s1, "ValidationError", "Player not found", NoRet, init.loads, 0)
       ELSE IF ~saved.ok THEN SaveFailure(s2, failed, init.loads)
       ELSE Outcome(saved.s, "ok", "", NoRet, init.loads, 1)

addToWaitlistOn(s, eventId, player, t, io) ==
    LET init == ensureInitialized(s, io)
        s1 == init.s
        entry == [eventId |-> eventId, player |-> player, joinedAt |-> DateObj(t),
                  notifiedAt |-> NoDate]
        list == IF MapHas(s1.waitlist, eventId) THEN MapGet(s1.waitlist, eventId) ELSE <<>>
        s2 == [s1 EXCEPT !.waitlist = MapSet(s1.waitlist, eventId, Append(list, entry))]
        saved == saveData(s2, io)
        failed == "Failed to add to waitlist"
    IN IF ~init.ok THEN InitFailure(s1, failed)
       ELSE IF ~MapHas(s1.events, eventId)
           THEN Outcome(s1, "ValidationError", "Event not found", NoRet, init.loads, 0)
       ELSE IF MapHas(s1.rsvpEntries, Key(eventId, player.id))
           THEN Outcome(s1, "ValidationError", "Player already has an RSVP for this event",
                        NoRet, init.loads, 0)
       ELSE IF ~saved.ok THEN SaveFailure(s2, failed, init.loads)
       ELSE Outcome(saved.s, "ok", "", [entry |-> entry], init.loads, 1)

notifyWaitlistOn(s, eventId, t, io) ==
    LET init == ensureInitialized(s, io)
        s1 == init.s
        confirmed == getConfirmedAttendees(s1)
        availableSpots == MapGet(s1.events, eventId).maxPlayers - Len(confirmed.list)
        list == IF MapHas(s1.waitlist, eventId) THEN MapGet(s1.waitlist, eventId) ELSE <<>>
        k == IF availableSpots <= Len(list) THEN availableSpots ELSE Len(list)
        stamped == [i \in DOMAIN list |->
                      IF i <= k THEN [list[i] EXCEPT !.notifiedAt = DateObj(t)] ELSE list[i]]
        s2 == IF MapHas(s1.waitlist, eventId)
              THEN [s1 EXCEPT !.waitlist = MapSet(s1.waitlist, eventId, stamped)]
              ELSE s1
        notifiedPlayers == [i \in 1 .. k |-> list[i].player]
        saved == saveData(s2, io)
        failed == "Failed to notify waitlist"
    IN IF ~init.ok THEN InitFailure(s1, failed)
       ELSE IF ~MapHas(s1.events, eventId)
           THEN Outcome(s1, "ValidationError", "Event not found", NoRet, init.loads, 0)
       ELSE IF ~confirmed.ok THEN Outcome(s1, "RsvpError", failed, NoRet, init.loads, 0)
       ELSE IF availableSpots <= 0 THEN Outcome(s1, "ok", "", [players |-> <<>>], init.loads, 0)
       ELSE IF ~saved.ok THEN SaveFailure(s2, failed, init.loads)
       ELSE Outcome(saved.s, "ok", "", [players |-> notifiedPlayers], init.loads, 1)

setupRemindersOn(s, eventId, interval, t, io) ==
    LET init == ensureInitialized(s, io)
        s1 == init.s
        reminder == [eventId |-> eventId, lastSentAt |-> DateObj(t),
                     nextSendAt |-> DateObj(t + interval), reminderInterval |-> interval]
        s2 == [s1 EXCEPT !.reminders = MapSet(s1.reminders, eventId, reminder)]
        saved == saveData(s2, io)
        failed == "Failed to setup reminders"
    IN IF ~init.ok THEN InitFailure(s1, failed)
       ELSE IF ~MapHas(s1.events, eventId)
           THEN Outcome(s1, "ValidationError", "Event not found", NoRet, init.loads, 0)
       ELSE IF ~saved.ok THEN SaveFailure(s2, failed, init.loads)
       ELSE Outcome(saved.s, "ok", "", NoRet, init.loads, 1)

\* a reminder is sent when it is due and its event is still stored
ReminderDue(s, pair, t) == DateLeq(pair[2].nextSendAt, DateObj(t)) /\ MapHas(s.events, pair[1])

sendRemindersOn(s, t, io) ==
    LET init == ensureInitialized(s, io)
        s1 == init.s
        due == SelectSeq(s1.reminders, LAMBDA pair : ReminderDue(s1, pair, t))
        eventsToRemind == [i \in DOMAIN due |-> MapGet(s1.events, due[i][1])]
        s2 == [s1 EXCEPT !.reminders =
                 [i \in DOMAIN s1.reminders |->
                    IF ReminderDue(s1, s1.reminders[i], t)
                    THEN <<s1.reminders[i][1],
                           [s1.reminders[i][2] EXCEPT
                               !.lastSentAt = DateObj(t),
                               !.nextSendAt = DateObj(t + s1.reminders[i][2].reminderInterval)]>>
                    ELSE s1.reminders[i]]]
        saved == saveData(s2, io)
        failed == "Failed to send reminders"
    IN IF ~init.ok THEN InitFailure(s1, failed)
       ELSE IF ~saved.ok THEN SaveFailure(s2, failed, init.loads)
       ELSE Outcome(saved.s, "ok", "", [events |-> eventsToRemind], init.loads, 1)

\* options.maxAge || 30
DefaultMaxAge == 30
\* options.maxAge when the caller gave none (undefined)
NoMaxAge == -1
\* options.maxAge || 30: the default replaces an absent maxAge and a maxAge of 0
EffectiveMaxAge(options) ==
    IF options.maxAge \in {NoMaxAge, 0} THEN DefaultMaxAge ELSE options.maxAge

\* the events cleanupData treats: those dated before the cutoff
Expired(s, options, t) ==
    {s.events[i][1] : i \in {j \in DOMAIN s.events :
        DateLess(s.events[j][2].date, DateObj(t - EffectiveMaxAge(options)))}}

cleanupDataOn(s, options, t, io) ==
    LET init == ensureInitialized(s, io)
        s1 == init.s
        old == Expired(s1, options, t)
        keptEvents ==
            IF options.archive
            THEN [i \in DOMAIN s1.events |->
                    IF s1.events[i][1] \in old
                    THEN <<s1.events[i][1], [s1.events[i][2] EXCEPT !.archived = TRUE]>>
                    ELSE s1.events[i]]
            ELSE SelectSeq(s1.events, LAMBDA pair : pair[1] \notin old)
        keptEntries ==
            IF options.includeRSVPs
            THEN SelectSeq(s1.rsvpEntries, LAMBDA pair : pair[2].eventId \notin old)
            ELSE s1.rsvpEntries
        s2 == [s1 EXCEPT !.events = keptEvents, !.rsvpEntries = keptEntries]
        counts == [events |-> Len(s1.events) - Len(keptEvents),
                   rsvps |-> Len(s1.rsvpEntries) - Len(keptEntries)]
        saved == saveData(s2, io)
        failed == "Failed to cleanup data"
    IN IF ~init.ok THEN InitFailure(s1, failed)
       ELSE IF ~saved.ok THEN SaveFailure(s2, failed, init.loads)
       ELSE Outcome(saved.s, "ok", "", [counts |-> counts], init.loads, 1)

\* the loop of batchUpdateRsvps from item i on; acc is the outcome so far and
\* ios[i] the outcome of the storage calls of item i
RECURSIVE batchLoop(_, _, _, _, _)
batchLoop(acc, updates, ios, i, t) ==
    IF i > Len(updates) THEN acc
    ELSE LET update == updates[i]
             found == getPlayerById(acc.s, update.playerId)
             inner == updateRsvpOn(acc.s, update.eventId, found.player, update.status,
                                   NoNotes, t, ios[i])
         IN IF ~MapHas(acc.s.events, update.eventId)
                THEN Outcome(acc.s, "ValidationError", "Event not found: " \o update.eventId,
                             NoRet, acc.loads, acc.saves)
            ELSE IF ~found.found
                THEN Outcome(acc.s, "ValidationError", "Player not found: " \o update.playerId,
                             NoRet, acc.loads, acc.saves)
            ELSE IF inner.res = "ValidationError"
                THEN Outcome(inner.s, "ValidationError", inner.msg, NoRet,
                             acc.loads, acc.saves + inner.saves)
            ELSE IF inner.res = "RsvpError"
                THEN [Outcome(inner.s, "RsvpError", "Failed to batch update RSVPs", NoRet,
                              acc.loads, acc.saves + inner.saves)
                        EXCEPT !.saveFailed = inner.saveFailed]
            ELSE batchLoop(Outcome(inner.s, "ok", "",
                                   [entries |-> Append(acc.ret.entries, inner.ret.entry)],
                                   acc.loads, acc.saves + inner.saves),
                           updates, ios, i + 1, t)

batchUpdateRsvpsOn(s, updates, t, ios) ==
    LET init == ensureInitialized(s, ios[1])
    IN IF ~init.ok
       THEN InitFailure(init.s, "Failed to batch update RSVPs")
       ELSE batchLoop(Outcome(init.s, "ok", "", [entries |-> <<>>], init.loads, 0),
                      updates, ios, 1, t)

(***************************************************************************)
(* RsvpService: read operations.                                           *)
(***************************************************************************)
getEventOn(s, eventId, io) ==
    LET init == ensureInitialized(s, io)
        s1 == init.s
    IN IF ~init.ok THEN InitFailure(s1, "Failed to get event")
       ELSE IF MapHas(s1.events, eventId)
           THEN Outcome(s1, "ok", "", [event |-> MapGet(s1.events, eventId)], init.loads, 0)
       ELSE Outcome(s1, "ok", "", [undefined |-> TRUE], init.loads, 0)

CountStatus(s, status) ==
    Len(SelectSeq(MapValues(s.rsvpEntries), LAMBDA e : e.status = status))

\* the rates are kept as the fraction num / den (den = 0: the rate is 0)
RsvpStats(s) ==
    LET total == Len(s.rsvpEntries)
        confirmed == CountStatus(s, "Yes")
        declined == CountStatus(s, "No")
        maybe == CountStatus(s, "Maybe")
    IN [total |-> total, confirmed |-> confirmed, declined |-> declined, maybe |-> maybe,
        attendanceRate |-> [num |-> IF total > 0 THEN confirmed * 100 ELSE 0, den |-> total],
        responseRate |-> [num |-> IF total > 0 THEN (confirmed + declined + maybe) * 100 ELSE 0,
                          den |-> total]]

\* getRsvpStats, getConfirmedAttendees, getEventStats and searchRsvps are
\* synchronous and do not call ensureInitialized
getRsvpStatsOn(s) == Outcome(s, "ok", "", [stats |-> RsvpStats(s)], 0, 0)

getConfirmedAttendeesOn(s) ==
    LET confirmed == getConfirmedAttendees(s)
    IN IF ~confirmed.ok
       THEN Outcome(s, "RsvpError", "Failed to get confirmed attendees", NoRet, 0, 0)
       ELSE Outcome(s, "ok", "", [entries |-> confirmed.list], 0, 0)

getEventStatsOn(s, eventId, t) ==
    LET event == MapGet(s.events, eventId)
        confirmed == getConfirmedAttendees(s)
        failed == "Failed to get event stats"
    IN IF ~MapHas(s.events, eventId)
           THEN Outcome(s, "ValidationError", "Event not found", NoRet, 0, 0)
       ELSE IF ~IsDate(event.date) THEN Outcome(s, "RsvpError", failed, NoRet, 0, 0)
       ELSE IF ~confirmed.ok THEN Outcome(s, "RsvpError", failed, NoRet, 0, 0)
       ELSE Outcome(s, "ok", "",
                    [eventStats |->
                        [stats |-> RsvpStats(s), event |-> event,
                         daysUntilEvent |-> event.date.t - t,
                         maxPlayers |-> event.maxPlayers,
                         currentPlayers |-> Len(confirmed.list)]], 0, 0)

\* name.toLowerCase().includes(query.toLowerCase()) on the names and
\* queries of the model
Lower(str) == CASE str = "Ann" -> "ann" [] str = "Zed" -> "zed" [] str = "AN" -> "an"
                [] OTHER -> str
Includes(str, part) ==
    \/ part = ""
    \/ str = part
    \/ <<str, part>> \in {<<"ann", "an">>, <<"ann", "a">>, <<"ann", "n">>, <<"ann", "nn">>,
                          <<"zed", "z">>, <<"zed", "ze">>, <<"zed", "e">>, <<"zed", "ed">>,
                          <<"zed", "d">>, <<"an", "a">>, <<"an", "n">>}

searchRsvpsOn(s, options) ==
    LET all == MapValues(s.rsvpEntries)
        byEvent == IF options.eventId # Undefined /\ options.eventId # ""
                   THEN SelectSeq(all, LAMBDA e : e.eventId = options.eventId)
                   ELSE all
        byName == IF options.playerName # Undefined /\ options.playerName # ""
                  THEN SelectSeq(byEvent, LAMBDA e :
                           Includes(Lower(e.player.name), Lower(options.playerName)))
                  ELSE byEvent
        byStatus == IF options.status # Undefined /\ options.status # ""
                    THEN SelectSeq(byName, LAMBDA e : e.status = options.status)
                    ELSE byName
        byDate == IF options.startDate.k # "undefined" /\ MapHas(s.events, options.eventId)
                  THEN IF DateGeq(MapGet(s.events, options.eventId).date, options.startDate)
                       THEN byStatus ELSE <<>>
                  ELSE byStatus
    IN IF SortThrows([i \in DOMAIN byDate |-> byDate[i].updatedAt])
       THEN Outcome(s, "RsvpError", "Failed to search RSVPs", NoRet, 0, 0)
       ELSE Outcome(s, "ok", "", [entries |-> SortedByUpdatedAt(byDate)], 0, 0)

\* getEventRsvps: the entries of one stored event, sorted by updatedAt
getEventRsvpsOn(s, eventId, io) ==
    LET init == ensureInitialized(s, io)
        s1 == init.s
        found == SelectSeq(MapValues(s1.rsvpEntries), LAMBDA e : e.eventId = eventId)
        failed == "Failed to get event RSVPs"
    IN IF ~init.ok THEN InitFailure(s1, failed)
       ELSE IF ~MapHas(s1.events, eventId)
           THEN Outcome(s1, "ValidationError", "Event not found", NoRet, init.loads, 0)
       ELSE IF SortThrows([i \in DOMAIN found |-> found[i].updatedAt])
           THEN Outcome(s1, "RsvpError", failed, NoRet, init.loads, 0)
       ELSE Outcome(s1, "ok", "", [entries |-> SortedByUpdatedAt(found)], init.loads, 0)

\* listEvents sorting the stored events themselves
listEventsOn_SortsInPlace(s, io) ==
    LET init == ensureInitialized(s, io)
        s1 == init.s
        all == s1.events
        sorted == SortByTime([i \in DOMAIN all |-> <<all[i][2].date.t, all[i]>>])
        inPlace == [i \in DOMAIN sorted |-> sorted[i][2]]
    IN IF ~init.ok THEN InitFailure(s1, "Failed to list events")
       ELSE IF SortThrows([i \in DOMAIN all |-> all[i][2].date])
           THEN Outcome(s1, "RsvpError", "Failed to list events", NoRet, init.loads, 0)
       ELSE Outcome([s1 EXCEPT !.events = inPlace], "ok", "",
                    [events |-> MapValues(inPlace)], init.loads, 0)

\* listEvents: every stored event, sorted by date
listEventsOn(s, io) ==
    LET init == ensureInitialized(s, io)
        s1 == init.s
        all == MapValues(s1.events)
        sorted == SortByTime([i \in DOMAIN all |-> <<all[i].date.t, all[i]>>])
    IN IF ~init.ok THEN InitFailure(s1, "Failed to list events")
       ELSE IF SortThrows([i \in DOMAIN all |-> all[i].date])
           THEN Outcome(s1, "RsvpError", "Failed to list events", NoRet, init.loads, 0)
       ELSE Outcome(s1, "ok", "", [events |-> [i \in DOMAIN sorted |-> sorted[i][2]]],
                    init.loads, 0)

(***************************************************************************)
(* Inputs.                                                                 *)
(***************************************************************************)
IO == [load : BOOLEAN, save : BOOLEAN]
NoFault == [load |-> TRUE, save |-> TRUE]
\* the storage outcomes a call can meet: an initialized instance does not read
Faults == {io \in IO : initialized => io.load}

Player(id, name) == [id |-> id, name |-> name, email |-> "a@x.io"]

Players(ids) == {Player(id, "Ann") : id \in ids}

Event(id, date, maxPlayers) ==
    [id |-> id, name |-> "Game", description |-> "desc", date |-> date,
     location |-> "loc", maxPlayers |-> maxPlayers, archived |-> FALSE]

BadEvents(t) ==
    {[Event("e1", DateObj(t + 1), 1) EXCEPT !.name = " "],
     [Event("e1", DateObj(t + 1), 1) EXCEPT !.description = ""],
     [Event("e1", DateObj(t + 1), 1) EXCEPT !.location = ""],
     [Event("e1", DateObj(t + 1), 1) EXCEPT !.id = ""],
     Event("e1", DateObj(t + 1), 0),
     Event("e1", DateObj(t - 1), 1)}

EventUpdate(has, name, date, maxPlayers) ==
    [has |-> has, name |-> name, description |-> "desc", date |-> date,
     location |-> "loc", maxPlayers |-> maxPlayers]

PlayerUpdate(has, name, email) == [has |-> has, name |-> name, email |-> email]

CleanupOptions(maxAge, archive, includeRSVPs) ==
    [maxAge |-> maxAge, archive |-> archive, includeRSVPs |-> includeRSVPs]

SearchOptions(eventId, playerName, status, startDate) ==
    [eventId |-> eventId, playerName |-> playerName, status |-> status,
     startDate |-> startDate]

BatchRsvpUpdate(eventId, playerId, status) ==
    [eventId |-> eventId, playerId |-> playerId, status |-> status]

(***************************************************************************)
(* Actions: one per call on the service.                                   *)
(***************************************************************************)
NoArgs == [none |-> TRUE]

Call(op, eventId, playerId, status) ==
    [op |-> op, eventId |-> eventId, playerId |-> playerId, status |-> status,
     args |-> NoArgs, res |-> "ok", msg |-> "", ret |-> NoRet, loads |-> 0, saves |-> 0,
     loadFailed |-> FALSE, saveFailed |-> FALSE, wasYes |-> FALSE, wasFull |-> FALSE,
     again |-> FALSE]

\* the operations that only read
ReadOps == {"getEvent", "listEvents", "searchRsvps", "getRsvpStats",
            "getConfirmedAttendees", "getEventRsvps", "getEventStats"}

\* the call repeats the one before it: the same read with the same arguments
Repeats(call) ==
    /\ call.op \in ReadOps
    /\ last.op = call.op /\ last.eventId = call.eventId /\ last.args = call.args

NoCall == Call("new", "-", "-", "-")

\* the number of 'Yes' entries of one event
EventYes(entries, eventId) ==
    Len(SelectSeq(entries, LAMBDA pair : pair[2].eventId = eventId /\ pair[2].status = "Yes"))

\* the player holds a 'Yes' entry for the event
HoldsYes(entries, eventId, playerId) ==
    \E i \in DOMAIN entries :
        /\ entries[i][2].eventId = eventId
        /\ entries[i][2].player.id = playerId
        /\ entries[i][2].status = "Yes"

\* the event is stored and as many players hold a 'Yes' entry for it as it
\* has places
EventFull(evs, entries, eventId) ==
    MapHas(evs, eventId) /\ EventYes(entries, eventId) = MapGet(evs, eventId).maxPlayers

\* the store after a call, and the record of the call
Commit(out, call) ==
    /\ rsvpEntries' = out.s.rsvpEntries
    /\ events' = out.s.events
    /\ waitlist' = out.s.waitlist
    /\ reminders' = out.s.reminders
    /\ initialized' = out.s.initialized
    /\ file' = out.s.file
    /\ last' = [call EXCEPT !.res = out.res, !.msg = out.msg, !.ret = out.ret,
                            !.loads = out.loads, !.saves = out.saves,
                            !.loadFailed = out.loadFailed,
                            !.saveFailed = out.saveFailed,
                            !.wasYes = HoldsYes(rsvpEntries, call.eventId, call.playerId),
                            !.wasFull = EventFull(events, rsvpEntries, call.eventId),
                            !.again = Repeats(call)]
    /\ calls' = calls + 1
    /\ UNCHANGED <<now, inflight>>

createEvent(inputs, ios) ==
    \E event \in inputs, io \in ios :
        Commit(createEventOn(Self, event, now, io),
               [Call("createEvent", event.id, "-", "-") EXCEPT !.args = event])

updateRsvp(eventIds, players, statuses, notesInputs, ios) ==
    \E eventId \in eventIds, player \in players, status \in statuses,
       notes \in notesInputs, io \in ios :
        Commit(updateRsvpOn(Self, eventId, player, status, notes, now, io),
               [Call("updateRsvp", eventId, player.id, status)
                   EXCEPT !.args = [player |-> player, notes |-> notes]])

batchUpdateRsvps(batches, ios) ==
    \E updates \in batches, io1 \in ios, io2 \in ios :
        Commit(batchUpdateRsvpsOn(Self, updates, now, <<io1, io2>>),
               [Call("batchUpdateRsvps", "-", "-", "-") EXCEPT !.args = [updates |-> updates]])

updateEvent(eventIds, updates, ios) ==
    \E eventId \in eventIds, update \in updates, io \in ios :
        Commit(updateEventOn(Self, eventId, update, now, io),
               [Call("updateEvent", eventId, "-", "-") EXCEPT !.args = update])

deleteEvent(eventIds, ios) ==
    \E eventId \in eventIds, io \in ios :
        Commit(deleteEventOn(Self, eventId, io), Call("deleteEvent", eventId, "-", "-"))

cancelRsvp(eventIds, playerIds, ios) ==
    \E eventId \in eventIds, playerId \in playerIds, io \in ios :
        Commit(cancelRsvpOn(Self, eventId, playerId, io),
               Call("cancelRsvp", eventId, playerId, "-"))

updatePlayer(playerIds, updates, ios) ==
    \E playerId \in playerIds, update \in updates, io \in ios :
        Commit(updatePlayerOn(Self, playerId, update, io),
               [Call("updatePlayer", "-", playerId, "-") EXCEPT !.args = update])

removePlayer(playerIds, ios) ==
    \E playerId \in playerIds, io \in ios :
        Commit(removePlayerOn(Self, playerId, io), Call("removePlayer", "-", playerId, "-"))

addToWaitlist(eventIds, players, ios) ==
    \E eventId \in eventIds, player \in players, io \in ios :
        Commit(addToWaitlistOn(Self, eventId, player, now, io),
               Call("addToWaitlist", eventId, player.id, "-"))

notifyWaitlist(eventIds, ios) ==
    \E eventId \in eventIds, io \in ios :
        Commit(notifyWaitlistOn(Self, eventId, now, io),
               Call("notifyWaitlist", eventId, "-", "-"))

setupReminders(eventIds, intervals, ios) ==
    \E eventId \in eventIds, interval \in intervals, io \in ios :
        Commit(setupRemindersOn(Self, eventId, interval, now, io),
               [Call("setupReminders", eventId, "-", "-") EXCEPT !.args = [interval |-> interval]])

sendReminders(ios) ==
    \E io \in ios :
        Commit(sendRemindersOn(Self, now, io),
               [Call("sendReminders", "-", "-", "-") EXCEPT !.args = [at |-> now]])

cleanupData(optionInputs, ios) ==
    \E options \in optionInputs, io \in ios :
        Commit(cleanupDataOn(Self, options, now, io),
               [Call("cleanupData", "-", "-", "-") EXCEPT
                    !.status = (IF options.archive THEN "archive" ELSE "delete")
                               \o (IF options.includeRSVPs THEN "+rsvps" ELSE ""),
                    !.args = options])

getEvent(eventIds, ios) ==
    \E eventId \in eventIds, io \in ios :
        Commit(getEventOn(Self, eventId, io), Call("getEvent", eventId, "-", "-"))

getRsvpStats == Commit(getRsvpStatsOn(Self), Call("getRsvpStats", "-", "-", "-"))

getConfirmedAttendeesCall ==
    Commit(getConfirmedAttendeesOn(Self), Call("getConfirmedAttendees", "-", "-", "-"))

getEventStats(eventIds) ==
    \E eventId \in eventIds :
        Commit(getEventStatsOn(Self, eventId, now), Call("getEventStats", eventId, "-", "-"))

searchRsvps(optionInputs) ==
    \E options \in optionInputs :
        Commit(searchRsvpsOn(Self, options),
               [Call("searchRsvps", options.eventId, "-", "-") EXCEPT !.args = options])

getEventRsvps(eventIds, ios) ==
    \E eventId \in eventIds, io \in ios :
        Commit(getEventRsvpsOn(Self, eventId, io), Call("getEventRsvps", eventId, "-", "-"))

listEvents(ios) ==
    \E io \in ios : Commit(listEventsOn(Self, io), Call("listEvents", "-", "-", "-"))

\* time passes between calls
Tick ==
    /\ now < MaxNow
    /\ now' = now + 1
    /\ UNCHANGED <<rsvpEntries, events, waitlist, reminders, initialized, file, last, calls,
                   inflight>>

\* the process ends and a new RsvpService is constructed on the same storage
Restart ==
    /\ initialized
    /\ rsvpEntries' = <<>>
    /\ events' = <<>>
    /\ waitlist' = <<>>
    /\ reminders' = <<>>
    /\ initialized' = FALSE
    /\ last' = NoCall
    /\ inflight' = NoInFlight
    /\ UNCHANGED <<file, now, calls>>

Init ==
    /\ rsvpEntries = <<>>
    /\ events = <<>>
    /\ waitlist = <<>>
    /\ reminders = <<>>
    /\ initialized = FALSE
    /\ file = NoFile
    /\ now = 0
    /\ last = NoCall
    /\ calls = 0
    /\ inflight = NoInFlight

(***************************************************************************)
(* Spec: the life of one event and the RSVP entries of two players for it  *)
(* (create, update, delete, clean up) over time and restarts, with storage *)
(* that works.                                                             *)
(***************************************************************************)
MaxCalls == 5

TwoPlayers == Players({"p1", "p2"})
Tomorrow(ids) == {Event(id, DateObj(now + 1), m) : id \in ids, m \in 1 .. MaxCapacity}
CapacityUpdates == {EventUpdate({"maxPlayers"}, "Game", NoDate, m) : m \in 1 .. MaxCapacity}

Next ==
    \/ calls < MaxCalls /\ createEvent(Tomorrow(OneEvent), {NoFault})
    \/ calls < MaxCalls /\ updateRsvp(OneEvent, TwoPlayers, {"Yes", "No"}, {NoNotes}, {NoFault})
    \/ calls < MaxCalls /\ updateEvent(OneEvent, CapacityUpdates, {NoFault})
    \/ calls < MaxCalls /\ deleteEvent(OneEvent, {NoFault})
    \/ calls < MaxCalls /\ cancelRsvp(OneEvent, {"p1", "p2"}, {NoFault})
    \/ calls < MaxCalls /\ cleanupData(
           {CleanupOptions(1, a, r) : a \in BOOLEAN, r \in BOOLEAN}, {NoFault})
    \/ Tick
    \/ Restart

Spec == Init /\ [][Next]_vars

(***************************************************************************)
(* SpecCapacity: RSVPs of two players for two events on one instance.      *)
(***************************************************************************)
MaxCapCalls == 6

NextCapacity ==
    \/ calls < MaxCapCalls /\ createEvent(Tomorrow(EventIds), {NoFault})
    \/ calls < MaxCapCalls /\ updateRsvp(EventIds, TwoPlayers, Statuses, {NoNotes}, {NoFault})

SpecCapacity == Init /\ [][NextCapacity]_vars

(***************************************************************************)
(* SpecFaults: every mutating operation on one event, with storage reads   *)
(* and writes that may fail, over restarts.                                *)
(***************************************************************************)
MaxFaultCalls == 4

NextFaults ==
    \/ calls < MaxFaultCalls /\ createEvent({Event("e1", DateObj(now + 1), m) : m \in 0 .. 2}, Faults)
    \/ /\ calls < MaxFaultCalls
       /\ updateRsvp(OneEvent, TwoPlayers, {"Yes", "No", "Invalid"}, {NoNotes}, Faults)
    \/ calls < MaxFaultCalls /\ batchUpdateRsvps(
           {<<>>,
            <<BatchRsvpUpdate("e1", "p1", "No")>>,
            <<BatchRsvpUpdate("e1", "p1", "Yes"), BatchRsvpUpdate("e1", "p2", "Yes")>>}, Faults)
    \/ calls < MaxFaultCalls /\ updateEvent(OneEvent, CapacityUpdates, Faults)
    \/ calls < MaxFaultCalls /\ deleteEvent(OneEvent, Faults)
    \/ calls < MaxFaultCalls /\ cancelRsvp(OneEvent, {"p1"}, Faults)
    \/ calls < MaxFaultCalls /\ updatePlayer({"p1"},
           {PlayerUpdate({"name"}, "Zed", "a@x.io"), PlayerUpdate({"email"}, "Ann", "bad")}, Faults)
    \/ calls < MaxFaultCalls /\ removePlayer({"p1"}, Faults)
    \/ calls < MaxFaultCalls /\ addToWaitlist(OneEvent, TwoPlayers, Faults)
    \/ calls < MaxFaultCalls /\ notifyWaitlist(OneEvent, Faults)
    \/ calls < MaxFaultCalls /\ setupReminders(OneEvent, {0, 1}, Faults)
    \/ calls < MaxFaultCalls /\ sendReminders(Faults)
    \/ calls < MaxFaultCalls /\ cleanupData({CleanupOptions(0, FALSE, FALSE)}, Faults)
    \/ Restart

SpecFaults == Init /\ [][NextFaults]_vars

(***************************************************************************)
(* SpecInit: the first calls on a new instance, reads included, with a     *)
(* storage whose reads may fail.                                           *)
(***************************************************************************)
MaxInitCalls == 4

LoadFaults == {[load |-> l, save |-> TRUE] : l \in BOOLEAN}
AllRsvps == {SearchOptions(Undefined, Undefined, Undefined, NoDate)}

NextInit ==
    \/ calls < MaxInitCalls /\ createEvent(Tomorrow(OneEvent), LoadFaults)
    \/ calls < MaxInitCalls /\ updateRsvp(OneEvent, TwoPlayers, {"Yes"}, {NoNotes}, LoadFaults)
    \/ calls < MaxInitCalls /\ getEvent(OneEvent, LoadFaults)
    \/ calls < MaxInitCalls /\ getRsvpStats
    \/ calls < MaxInitCalls /\ getConfirmedAttendeesCall
    \/ calls < MaxInitCalls /\ getEventStats(OneEvent)
    \/ calls < MaxInitCalls /\ searchRsvps(AllRsvps)
    \/ Restart

SpecInit == Init /\ [][NextInit]_vars

(***************************************************************************)
(* SpecRoundTrip: FileStorage.save followed by FileStorage.load, on        *)
(* snapshots as the service holds them after its own writes.               *)
(***************************************************************************)
MaxStamp == 1

Stamps == {DateObj(t) : t \in 0 .. MaxStamp}
RtEntry(playerId, status, updatedAt) ==
    <<Key("e1", playerId),
      [eventId |-> "e1", player |-> Player(playerId, "Ann"), status |-> status,
       updatedAt |-> updatedAt, notes |-> NoNotes]>>
RtEntryMaps ==
    {<<>>}
    \cup {<<RtEntry("p1", st, d)>> : st \in Statuses, d \in Stamps}
    \cup {<<RtEntry("p1", "Yes", d1), RtEntry("p2", "No", d2)>> : d1 \in Stamps, d2 \in Stamps}
RtEventMaps ==
    {<<>>} \cup {<<<<"e1", Event("e1", d, m)>>>> : d \in Stamps, m \in 1 .. MaxCapacity}
RtWaitlistMaps ==
    {<<>>}
    \cup {<<<<"e1", <<[eventId |-> "e1", player |-> Player("p2", "Ann"),
                       joinedAt |-> d, notifiedAt |-> n]>>>>>> :
            d \in Stamps, n \in {NoDate, DateObj(MaxStamp)}}
RtReminderMaps ==
    {<<>>}
    \cup {<<<<"e1", [eventId |-> "e1", lastSentAt |-> d, nextSendAt |-> DateObj(d.t + 1),
                     reminderInterval |-> 1]>>>> : d \in Stamps}

InitRoundTrip ==
    /\ rsvpEntries \in RtEntryMaps
    /\ events \in RtEventMaps
    /\ waitlist \in RtWaitlistMaps
    /\ reminders \in RtReminderMaps
    /\ initialized = TRUE
    /\ file = NoFile
    /\ now = MaxStamp
    /\ last = NoCall
    /\ calls = 0
    /\ inflight = NoInFlight

\* storage.save(snapshot) of the four collections
RtSave ==
    /\ last.op = "new"
    /\ file' = save(Data(Self))
    /\ last' = Call("save", "-", "-", "-")
    /\ calls' = calls + 1
    /\ UNCHANGED <<rsvpEntries, events, waitlist, reminders, initialized, now, inflight>>

\* storage.load() of what was saved
RtLoad ==
    /\ last.op = "save"
    /\ rsvpEntries' = load(file).rsvpEntries
    /\ events' = load(file).events
    /\ waitlist' = load(file).waitlist
    /\ reminders' = load(file).reminders
    /\ last' = Call("load", "-", "-", "-")
    /\ calls' = calls + 1
    /\ UNCHANGED <<initialized, file, now, inflight>>

NextRoundTrip ==
    \/ RtSave
    \/ RtLoad

SpecRoundTrip == InitRoundTrip /\ [][NextRoundTrip]_vars

(***************************************************************************)
(* SpecDelete: two events with RSVP entries, waitlists and reminders, and  *)
(* their deletion, followed by reads, over restarts.                       *)
(***************************************************************************)
MaxDelCalls == 7

NextDelete ==
    \/ calls < MaxDelCalls /\ createEvent(
           {Event("e1", DateObj(now + 1), 1), Event("e2", DateObj(now + 1), 2)}, {NoFault})
    \/ calls < MaxDelCalls /\ updateRsvp(EventIds, Players({"p1"}), {"Yes"}, {NoNotes}, {NoFault})
    \/ calls < MaxDelCalls /\ addToWaitlist(EventIds, TwoPlayers, {NoFault})
    \/ calls < MaxDelCalls /\ setupReminders(OneEvent, {1}, {NoFault})
    \/ calls < MaxDelCalls /\ deleteEvent(EventIds, {NoFault})
    \/ calls < MaxDelCalls /\ getEventRsvps(EventIds, {NoFault})
    \/ calls < MaxDelCalls /\ searchRsvps(AllRsvps)
    \/ Restart

SpecDelete == Init /\ [][NextDelete]_vars

(***************************************************************************)
(* SpecWaitlist: two events, RSVPs on both, a waitlist on the first and    *)
(* notifications, over restarts.                                           *)
(***************************************************************************)
MaxWlCalls == 6

\* two events dated tomorrow with room for every player
RoomyEvents == {Event(id, DateObj(now + 1), MaxCapacity) : id \in EventIds}

NextWaitlist ==
    \/ calls < MaxWlCalls /\ createEvent(RoomyEvents, {NoFault})
    \/ calls < MaxWlCalls /\ updateRsvp(EventIds, TwoPlayers, {"Yes"}, {NoNotes}, {NoFault})
    \/ calls < MaxWlCalls /\ addToWaitlist(OneEvent, TwoPlayers, {NoFault})
    \/ calls < MaxWlCalls /\ notifyWaitlist(EventIds, {NoFault})
    \/ Restart

SpecWaitlist == Init /\ [][NextWaitlist]_vars

(***************************************************************************)
(* SpecCleanup: two events created on different days, RSVPs on both, the   *)
(* passing of time and cleanupData with every combination of options,      *)
(* over restarts.                                                          *)
(***************************************************************************)
MaxCleanCalls == 5

NextCleanup ==
    \/ calls < MaxCleanCalls /\ createEvent(RoomyEvents, {NoFault})
    \/ calls < MaxCleanCalls /\ updateRsvp(EventIds, Players({"p1"}), {"Yes"}, {NoNotes}, {NoFault})
    \/ calls < MaxCleanCalls /\ cleanupData(
           {CleanupOptions(m, a, r) : m \in {NoMaxAge, 0, 1}, a \in BOOLEAN, r \in BOOLEAN}, {NoFault})
    \/ Tick
    \/ Restart

SpecCleanup == Init /\ [][NextCleanup]_vars

(***************************************************************************)
(* SpecCreate: createEvent with valid and invalid events on successive     *)
(* days, over restarts.                                                    *)
(***************************************************************************)
MaxCreateCalls == 3

NextCreate ==
    \/ calls < MaxCreateCalls /\ createEvent(
           {Event(id, DateObj(now + d), MaxCapacity) : id \in EventIds, d \in {0, 1}}
           \cup BadEvents(now)
           \cup {Event("e2", DateObj(now + 1), m) : m \in {0, -1, Half(1), Half(3)}}, {NoFault})
    \/ Tick
    \/ Restart

SpecCreate == Init /\ [][NextCreate]_vars

(***************************************************************************)
(* SpecBatch: one event with one or three places, RSVPs of two players and *)
(* batches of up to two updates, valid or not, over restarts.              *)
(***************************************************************************)
MaxBatchCalls == 4

BatchItems ==
    {BatchRsvpUpdate("e1", "p1", "Yes"), BatchRsvpUpdate("e1", "p2", "Yes"),
     BatchRsvpUpdate("e1", "p1", "No"), BatchRsvpUpdate("e2", "p1", "Yes"),
     BatchRsvpUpdate("e1", "p3", "Yes"), BatchRsvpUpdate("e1", "p2", "Invalid")}

NextBatch ==
    \/ calls < MaxBatchCalls /\ createEvent(
           {Event("e1", DateObj(now + 1), m) : m \in {1, 3}}, {NoFault})
    \/ calls < MaxBatchCalls /\ updateRsvp(OneEvent, TwoPlayers, {"Yes", "No"}, {NoNotes}, {NoFault})
    \/ calls < MaxBatchCalls /\ batchUpdateRsvps(
           {<<>>} \cup {<<u>> : u \in BatchItems} \cup (BatchItems \X BatchItems), {NoFault})
    \/ Restart

SpecBatch == Init /\ [][NextBatch]_vars

(***************************************************************************)
(* SpecStats: RSVPs of two players on two events with every status, valid  *)
(* or not, cancellations and getRsvpStats, over restarts.                  *)
(***************************************************************************)
MaxStatsCalls == 5

NextStats ==
    \/ calls < MaxStatsCalls /\ createEvent(RoomyEvents, {NoFault})
    \/ /\ calls < MaxStatsCalls
       /\ updateRsvp(EventIds, TwoPlayers, Statuses \cup {"Invalid"}, {NoNotes}, {NoFault})
    \/ calls < MaxStatsCalls /\ cancelRsvp(OneEvent, {"p1"}, {NoFault})
    \/ calls < MaxStatsCalls /\ getRsvpStats
    \/ Restart

SpecStats == Init /\ [][NextStats]_vars

(***************************************************************************)
(* SpecReads: every read operation on a store of two events and the RSVPs  *)
(* of two players, while time passes, over restarts.                       *)
(***************************************************************************)
MaxReadCalls == 5

NextReads ==
    \/ calls < MaxReadCalls /\ createEvent(
           {Event("e1", DateObj(now + 2), MaxCapacity),
            Event("e2", DateObj(now + 1), MaxCapacity)}, {NoFault})
    \/ calls < MaxReadCalls /\ updateRsvp(OneEvent, TwoPlayers, {"Yes"}, {NoNotes}, {NoFault})
    \/ calls < MaxReadCalls /\ getEvent(EventIds, {NoFault})
    \/ calls < MaxReadCalls /\ listEvents({NoFault})
    \/ calls < MaxReadCalls /\ searchRsvps(
           {SearchOptions(Undefined, Undefined, Undefined, NoDate),
            SearchOptions("e1", Undefined, "Yes", NoDate)})
    \/ calls < MaxReadCalls /\ getRsvpStats
    \/ calls < MaxReadCalls /\ getConfirmedAttendeesCall
    \/ calls < MaxReadCalls /\ getEventRsvps(OneEvent, {NoFault})
    \/ calls < MaxReadCalls /\ getEventStats(OneEvent)
    \/ Tick
    \/ Restart

SpecReads == Init /\ [][NextReads]_vars

(***************************************************************************)
(* SpecSearch: searchRsvps with every combination of filters on the RSVPs  *)
(* of two players with different names on two events, while time passes,   *)
(* over restarts.                                                          *)
(***************************************************************************)
MaxSearchCalls == 4

NextSearch ==
    \/ calls < MaxSearchCalls /\ createEvent(RoomyEvents, {NoFault})
    \/ /\ calls < MaxSearchCalls
       /\ updateRsvp(EventIds,
              {Player("p1", "Ann"), Player("p2", "Zed")}, {"Yes", "No"}, {NoNotes}, {NoFault})
    \/ calls < MaxSearchCalls /\ searchRsvps(
           {SearchOptions(eventId, playerName, status, startDate) :
            eventId \in {Undefined} \cup EventIds, playerName \in {Undefined, "AN"},
            status \in {Undefined, "Yes"},
            startDate \in {NoDate, DateObj(now + 1), DateObj(now + 2)}})
    \/ Tick
    \/ Restart

SpecSearch == Init /\ [][NextSearch]_vars

(***************************************************************************)
(* SpecUpdate: updateEvent with valid and invalid fields on two events,    *)
(* while time passes, over restarts.                                       *)
(***************************************************************************)
MaxUpdCalls == 4

NextUpdate ==
    \/ calls < MaxUpdCalls /\ createEvent(RoomyEvents, {NoFault})
    \/ calls < MaxUpdCalls /\ updateEvent(EventIds,
           {EventUpdate({}, "Game", NoDate, 1),
            EventUpdate({"name"}, "Cup", NoDate, 1),
            EventUpdate({"name"}, " ", NoDate, 1),
            EventUpdate({"date"}, "Game", DateObj(now + 2), 1),
            EventUpdate({"date"}, "Game", DateObj(now - 1), 1),
            EventUpdate({"maxPlayers"}, "Game", NoDate, 0),
            EventUpdate({"maxPlayers"}, "Game", NoDate, Half(1)),
            EventUpdate({"name", "maxPlayers"}, "Cup", NoDate, 1)}, {NoFault})
    \/ Tick
    \/ Restart

SpecUpdate == Init /\ [][NextUpdate]_vars

(***************************************************************************)
(* SpecPlayer: updatePlayer on the RSVPs of two players for two events,    *)
(* over restarts.                                                          *)
(***************************************************************************)
MaxPlCalls == 6

NextPlayer ==
    \/ calls < MaxPlCalls /\ createEvent(RoomyEvents, {NoFault})
    \/ calls < MaxPlCalls /\ updateRsvp(EventIds, TwoPlayers, {"Yes", "No"}, {NoNotes}, {NoFault})
    \/ calls < MaxPlCalls /\ updatePlayer({"p1", "p3"},
           {PlayerUpdate({"name"}, "Zed", "a@x.io"), PlayerUpdate({"email"}, "Ann", "bad"),
            PlayerUpdate({"name", "email"}, "Zed", "a@x.io")}, {NoFault})
    \/ Restart

SpecPlayer == Init /\ [][NextPlayer]_vars

(***************************************************************************)
(* SpecRsvp: repeated RSVPs, with and without notes, of two players on an  *)
(* event for one player, while time passes, over restarts.                 *)
(***************************************************************************)
MaxRsvpCalls == 4

NextRsvp ==
    \/ calls < MaxRsvpCalls /\ createEvent({Event("e1", DateObj(now + 1), 1)}, {NoFault})
    \/ calls < MaxRsvpCalls /\ updateRsvp(OneEvent, TwoPlayers, {"Yes", "No"},
                                           {NoNotes, "late"}, {NoFault})
    \/ Tick
    \/ Restart

SpecRsvp == Init /\ [][NextRsvp]_vars

(***************************************************************************)
(* SpecCancel: cancellations among the 'Yes' RSVPs of two players on an    *)
(* event for one player and an event for two, next to a waitlist and a     *)
(* reminder, over restarts.                                                *)
(***************************************************************************)
MaxCancelCalls == 6

NextCancel ==
    \/ calls < MaxCancelCalls /\ createEvent(
           {Event("e1", DateObj(now + 1), 1), Event("e2", DateObj(now + 1), 2)}, {NoFault})
    \/ calls < MaxCancelCalls /\ updateRsvp(EventIds, TwoPlayers, {"Yes"}, {NoNotes}, {NoFault})
    \/ calls < MaxCancelCalls /\ cancelRsvp(EventIds, {"p1", "p2"}, {NoFault})
    \/ calls < MaxCancelCalls /\ addToWaitlist(OneEvent, Players({"p2"}), {NoFault})
    \/ calls < MaxCancelCalls /\ setupReminders(OneEvent, {1}, {NoFault})
    \/ Restart

SpecCancel == Init /\ [][NextCancel]_vars

(***************************************************************************)
(* SpecReminders: reminders with intervals of 0, 1 and 2 days on two       *)
(* events, one of which may be deleted, while time passes, over restarts.  *)
(***************************************************************************)
MaxRemCalls == 5

NextReminders ==
    \/ calls < MaxRemCalls /\ createEvent(RoomyEvents, {NoFault})
    \/ calls < MaxRemCalls /\ setupReminders(EventIds, {0, 1, 2}, {NoFault})
    \/ calls < MaxRemCalls /\ sendReminders({NoFault})
    \/ calls < MaxRemCalls /\ deleteEvent(OneEvent, {NoFault})
    \/ Tick
    \/ Restart

SpecReminders == Init /\ [][NextReminders]_vars

(***************************************************************************)
(* SpecOverwrite: createEvent on the id of an event that has an RSVP, a    *)
(* waitlist, a reminder or was archived, while time passes, over restarts. *)
(***************************************************************************)
MaxOvCalls == 5

NextOverwrite ==
    \/ calls < MaxOvCalls /\ createEvent(Tomorrow(OneEvent), {NoFault})
    \/ calls < MaxOvCalls /\ updateRsvp(OneEvent, Players({"p1"}), {"Yes"}, {NoNotes}, {NoFault})
    \/ calls < MaxOvCalls /\ addToWaitlist(OneEvent, Players({"p2"}), {NoFault})
    \/ calls < MaxOvCalls /\ setupReminders(OneEvent, {1}, {NoFault})
    \/ calls < MaxOvCalls /\ cleanupData({CleanupOptions(1, TRUE, FALSE)}, {NoFault})
    \/ Tick
    \/ Restart

SpecOverwrite == Init /\ [][NextOverwrite]_vars

(***************************************************************************)
(* SpecKeys: RSVPs, cancellations and waitlists with event and player ids  *)
(* that contain the character '-'.                                         *)
(***************************************************************************)
MaxKeyCalls == 4

NextKeys ==
    \/ calls < MaxKeyCalls /\ createEvent(
           {Event(id, DateObj(now + 1), MaxCapacity) : id \in {"a", "a-b"}}, {NoFault})
    \/ calls < MaxKeyCalls /\ updateRsvp({"a", "a-b"}, Players({"b-c", "c"}), {"No", "Maybe"},
                                          {NoNotes}, {NoFault})
    \/ calls < MaxKeyCalls /\ cancelRsvp({"a", "a-b"}, {"b-c", "c"}, {NoFault})
    \/ calls < MaxKeyCalls /\ addToWaitlist({"a", "a-b"}, Players({"b-c", "c"}), {NoFault})
    \/ Restart

SpecKeys == Init /\ [][NextKeys]_vars

(***************************************************************************)
(* SpecConcurrent: createEvent calls started before earlier ones settle.   *)
(* A call runs from one await to the next in one step.  A continuation     *)
(* that waits on no file operation (the flag was set, or the file did not  *)
(* exist when load() was called) runs before the completion of any file    *)
(* operation; file operations complete in any order.                       *)
(***************************************************************************)
MaxConcCalls == 4
MaxInFlight == 2

\* createEvent up to its first await: ensureInitialized tests the flag and,
\* when it is not set, calls storage.load(), which reads the file if it exists
createEventStart(inputs) ==
    \E event \in inputs :
        /\ Len(inflight.ops) < MaxInFlight
        /\ inflight' = [inflight EXCEPT !.ops = Append(@,
                            [event |-> event,
                             key |-> event.id,
                             pc |-> IF initialized THEN "ready" ELSE "loading",
                             io |-> ~initialized /\ file.exists,
                             content |-> NoFile,
                             seq |-> 0])]
        /\ calls' = calls + 1
        /\ UNCHANGED <<rsvpEntries, events, waitlist, reminders, initialized, file, now, last>>

\* ensureInitialized after `await this.storage.load()`: the four collections
\* are assigned from the loaded data and the flag is set, whatever the flag
\* has become since it was tested
ensureInitializedResume ==
    \E i \in DOMAIN inflight.ops :
        LET op == inflight.ops[i]
            data == IF op.io THEN load(file) ELSE load(NoFile)
        IN /\ op.pc = "loading"
           /\ op.io => \A j \in DOMAIN inflight.ops :
                           /\ inflight.ops[j].pc # "ready"
                           /\ inflight.ops[j].pc = "loading" => inflight.ops[j].io
           /\ ~op.io => \A j \in 1 .. i - 1 :
                           ~(inflight.ops[j].pc = "loading" /\ ~inflight.ops[j].io)
           /\ rsvpEntries' = data.rsvpEntries
           /\ events' = data.events
           /\ waitlist' = data.waitlist
           /\ reminders' = data.reminders
           /\ initialized' = TRUE
           /\ inflight' = [inflight EXCEPT !.ops[i].pc = "ready"]
           /\ UNCHANGED <<file, now, last, calls>>

\* createEvent after `await this.ensureInitialized()`: the event is validated
\* and stored, and saveData() hands the serialized collections to writeFile
createEventResume ==
    \E i \in DOMAIN inflight.ops :
        LET op == inflight.ops[i]
            rejected == validateEvent(op.event, now) # "" \/ NumLess(op.event.maxPlayers, 1)
            stored == MapSet(events, op.event.id, op.event)
        IN /\ op.pc = "ready"
           /\ \A j \in DOMAIN inflight.ops :
                  ~(inflight.ops[j].pc = "loading" /\ ~inflight.ops[j].io)
           /\ events' = IF rejected THEN events ELSE stored
           /\ inflight' =
                  IF rejected
                  THEN [inflight EXCEPT !.ops = [k \in 1 .. Len(@) - 1 |->
                                                    IF k < i THEN @[k] ELSE @[k + 1]],
                                        !.refused = TRUE]
                  ELSE [inflight EXCEPT
                           !.ops[i].pc = "saving",
                           !.ops[i].content = save(Data([Self EXCEPT !.events = stored])),
                           !.ops[i].seq = inflight.issued + 1,
                           !.issued = @ + 1,
                           !.overlap = @ \/ \E j \in DOMAIN inflight.ops :
                                                inflight.ops[j].pc = "saving",
                           !.mutated = TRUE]
           /\ UNCHANGED <<rsvpEntries, waitlist, reminders, initialized, file, now, last, calls>>

\* saveData after `await this.storage.save(...)`: the file holds what was
\* handed to writeFile and the call returns
saveDataResume ==
    \E i \in DOMAIN inflight.ops :
        LET op == inflight.ops[i]
        IN /\ op.pc = "saving"
           /\ \A j \in DOMAIN inflight.ops :
                  /\ inflight.ops[j].pc # "ready"
                  /\ inflight.ops[j].pc = "loading" => inflight.ops[j].io
           /\ file' = op.content
           /\ inflight' = [inflight EXCEPT
                              !.ops = [k \in 1 .. Len(@) - 1 |->
                                          IF k < i THEN @[k] ELSE @[k + 1]],
                              !.done = @ \cup {op.key},
                              !.landed = op.seq]
           /\ UNCHANGED <<rsvpEntries, events, waitlist, reminders, initialized, now, last,
                          calls>>

\* updateRsvp up to its first await, as createEvent
updateRsvpStart(eventIds, players, statuses, notesInputs) ==
    \E eventId \in eventIds, player \in players, status \in statuses, notes \in notesInputs :
        /\ Len(inflight.ops) < MaxInFlight
        /\ inflight' = [inflight EXCEPT !.ops = Append(@,
                            [eventId |-> eventId, player |-> player, status |-> status,
                             notes |-> notes,
                             key |-> Key(eventId, player.id),
                             pc |-> IF initialized THEN "ready" ELSE "loading",
                             io |-> ~initialized /\ file.exists,
                             content |-> NoFile,
                             seq |-> 0])]
        /\ calls' = calls + 1
        /\ UNCHANGED <<rsvpEntries, events, waitlist, reminders, initialized, file, now, last>>

\* updateRsvp serializing the collections before it stores the entry
updateRsvpResume_SnapshotBeforeSet ==
    \E i \in DOMAIN inflight.ops :
        LET op == inflight.ops[i]
            out == updateRsvpOn(Self, op.eventId, op.player, op.status, op.notes, now, NoFault)
        IN /\ op.pc = "ready"
           /\ \A j \in DOMAIN inflight.ops :
                  ~(inflight.ops[j].pc = "loading" /\ ~inflight.ops[j].io)
           /\ rsvpEntries' = out.s.rsvpEntries
           /\ inflight' =
                  IF out.res # "ok"
                  THEN [inflight EXCEPT !.ops = [k \in 1 .. Len(@) - 1 |->
                                                    IF k < i THEN @[k] ELSE @[k + 1]],
                                        !.refused = TRUE]
                  ELSE [inflight EXCEPT
                           !.ops[i].pc = "saving",
                           !.ops[i].content = save(Data(Self)),
                           !.ops[i].seq = inflight.issued + 1,
                           !.issued = @ + 1,
                           !.overlap = @ \/ \E j \in DOMAIN inflight.ops :
                                                inflight.ops[j].pc = "saving",
                           !.mutated = TRUE]
           /\ last' = [Call("updateRsvp", op.eventId, op.player.id, op.status)
                          EXCEPT !.res = out.res, !.msg = out.msg]
           /\ UNCHANGED <<events, waitlist, reminders, initialized, file, now, calls>>

\* updateRsvp after `await this.ensureInitialized()`: the event is looked up,
\* the inputs are validated, the Yes entries are counted and the entry is
\* stored in one run, and saveData() hands the serialized collections to
\* writeFile; a call that throws settles here
updateRsvpResume ==
    \E i \in DOMAIN inflight.ops :
        LET op == inflight.ops[i]
            out == updateRsvpOn(Self, op.eventId, op.player, op.status, op.notes, now, NoFault)
        IN /\ op.pc = "ready"
           /\ \A j \in DOMAIN inflight.ops :
                  ~(inflight.ops[j].pc = "loading" /\ ~inflight.ops[j].io)
           /\ rsvpEntries' = out.s.rsvpEntries
           /\ inflight' =
                  IF out.res # "ok"
                  THEN [inflight EXCEPT !.ops = [k \in 1 .. Len(@) - 1 |->
                                                    IF k < i THEN @[k] ELSE @[k + 1]],
                                        !.refused = TRUE]
                  ELSE [inflight EXCEPT
                           !.ops[i].pc = "saving",
                           !.ops[i].content = out.s.file,
                           !.ops[i].seq = inflight.issued + 1,
                           !.issued = @ + 1,
                           !.overlap = @ \/ \E j \in DOMAIN inflight.ops :
                                                inflight.ops[j].pc = "saving",
                           !.mutated = TRUE]
           /\ last' = [Call("updateRsvp", op.eventId, op.player.id, op.status)
                          EXCEPT !.res = out.res, !.msg = out.msg]
           /\ UNCHANGED <<events, waitlist, reminders, initialized, file, now, calls>>

NextConcurrent ==
    \/ calls < MaxConcCalls
         /\ createEventStart(RoomyEvents \cup {Event("e2", DateObj(now + 1), 0)})
    \/ ensureInitializedResume
    \/ createEventResume
    \/ saveDataResume
    \/ inflight.ops = <<>> /\ Restart

SpecConcurrent == Init /\ [][NextConcurrent]_vars

(***************************************************************************)
(* SpecOverlap: one event created and reloaded by whole calls, and         *)
(* updateRsvp calls of three players started on the initialized store      *)
(* before earlier ones settle, no player with two calls in flight.         *)
(***************************************************************************)
MaxOverlapCalls == 5

NextOverlap ==
    \/ calls < MaxOverlapCalls /\ inflight.ops = <<>>
         /\ createEvent({Event("e1", DateObj(now + 1), MaxCapacity)}, {NoFault})
    \/ calls < MaxOverlapCalls /\ initialized
         /\ updateRsvpStart(OneEvent,
                {p \in Players({"p1", "p2", "p3"}) :
                    \A j \in DOMAIN inflight.ops : inflight.ops[j].player # p},
                {"Yes", "No"}, {NoNotes})
    \/ updateRsvpResume
    \/ saveDataResume
    \/ inflight.ops = <<>> /\ Restart

SpecOverlap == Init /\ [][NextOverlap]_vars

(***************************************************************************)
(* Properties.                                                             *)
(***************************************************************************)
\* the step is a call on the service
IsCall == calls' = calls + 1

\* the store as a call finds it once ensureInitialized has run with a
\* storage that can be read
Visible == ensureInitialized(Self, NoFault).s

\* the step is the call updateRsvp(eventId, q, 'Yes') of a player q who holds
\* no 'Yes' entry for the event
FurtherYes == IsCall /\ last'.op = "updateRsvp" /\ last'.status = "Yes" /\ ~last'.wasYes

\* the last call was a successful updateRsvp(E, p, 'No') by one of the
\* maxPlayers players who held a 'Yes' entry for E
ConfirmedPlayerDeclined ==
    /\ last.op = "updateRsvp" /\ last.status = "No" /\ last.res = "ok"
    /\ last.wasYes /\ last.wasFull

C2_YesWithinCapacity ==
    \A i \in DOMAIN events :
        EventYes(rsvpEntries, events[i][1]) <= events[i][2].maxPlayers

\* C3: updateRsvp(E, p, 'Yes') on a stored event is rejected with a
\* ValidationError exactly when the number of 'Yes' entries of all events is
\* at least E.maxPlayers; with another status it is never rejected for
\* capacity.
C3_RejectedIffStoreWideFull ==
    [][(IsCall /\ last'.op = "updateRsvp" /\ MapHas(Visible.events, last'.eventId))
        => /\ last'.status = "Yes"
                => ((last'.res = "ValidationError")
                      <=> (Len(YesEntries(Visible))
                             >= MapGet(Visible.events, last'.eventId).maxPlayers))
           /\ last'.status # "Yes" => last'.res = "ok"]_vars

\* the operations that fail with a ValidationError before they change
\* anything
GuardedOps ==
    {"createEvent", "updateRsvp", "updateEvent", "deleteEvent", "cancelRsvp",
     "updatePlayer", "removePlayer", "addToWaitlist", "notifyWaitlist", "setupReminders"}

Rejected == IsCall /\ last'.op \in GuardedOps /\ last'.res = "ValidationError"

CollectionsUnchanged == UNCHANGED <<rsvpEntries, events, waitlist, reminders>>

\* the four collections after the step are those of the snapshot in the file
CollectionsLoaded ==
    LET data == load(file)
    IN /\ rsvpEntries' = data.rsvpEntries
       /\ events' = data.events
       /\ waitlist' = data.waitlist
       /\ reminders' = data.reminders

\* C4: when one of the guarded operations fails with a ValidationError, the
\* four in-memory collections and the persisted snapshot are as before the
\* call and save() was not invoked.
C4_RejectionChangesNothing ==
    [][Rejected => (CollectionsUnchanged /\ file' = file /\ last'.saves = 0)]_vars

\* C4 amended: as C4, except that the first call on a new instance has
\* loaded the persisted snapshot into the four collections before it
\* failed.
C4_RejectionOnlyLoads ==
    [][Rejected => /\ file' = file
                   /\ last'.saves = 0
                   /\ initialized => CollectionsUnchanged
                   /\ ~initialized => CollectionsLoaded]_vars

C4_Witness ==
    /\ last.op = "updateRsvp" /\ last.res = "ValidationError"
    /\ last.msg = "Event is at maximum capacity" /\ last.loads = 0
    /\ rsvpEntries # <<>>

\* the mutation of the call is in the in-memory collections after the step
Applied ==
    LET key == Key(last'.eventId, last'.playerId)
    IN /\ last'.op = "createEvent" => MapHas(events', last'.eventId)
       /\ last'.op = "updateRsvp"
            => (MapHas(rsvpEntries', key) /\ MapGet(rsvpEntries', key).status = last'.status)
       /\ last'.op = "deleteEvent" => ~MapHas(events', last'.eventId)
       /\ last'.op = "cancelRsvp" => ~MapHas(rsvpEntries', key)
       /\ last'.op = "removePlayer"
            => \A i \in DOMAIN rsvpEntries' : rsvpEntries'[i][2].player.id # last'.playerId
       /\ last'.op = "addToWaitlist"
            => /\ MapHas(waitlist', last'.eventId)
               /\ LET list == MapGet(waitlist', last'.eventId)
                  IN list[Len(list)].player.id = last'.playerId
       /\ last'.op = "setupReminders" => MapHas(reminders', last'.eventId)

\* the snapshot in the file holds what the four collections hold: the file
\* is what a save of the collections writes (a missing file holds nothing)
InSync(f, data) == [f EXCEPT !.exists = TRUE] = Serialize(data)

\* C5: when save() fails the call fails with RsvpError, the mutation stays
\* in memory and the file keeps the content it had before that save (in a
\* batch, the content the save of the item before wrote); a call whose
\* save() succeeds makes the file equal to the in-memory collections again.
C5_SaveFailureDiverges ==
    [][IsCall =>
        /\ last'.saveFailed
             => (last'.res = "RsvpError" /\ Applied /\ (last'.saves = 1 => file' = file))
        /\ (last'.saves >= 1 /\ ~last'.saveFailed)
             => file' = Serialize([rsvpEntries |-> rsvpEntries', events |-> events',
                                   waitlist |-> waitlist', reminders |-> reminders'])]_vars

C5_Witness ==
    /\ last.op = "updateRsvp" /\ last.saveFailed
    /\ file.exists /\ ~InSync(file, Data(Self))

MutatingOps ==
    GuardedOps \cup {"batchUpdateRsvps", "sendReminders", "cleanupData"}

Succeeded == IsCall /\ last'.op \in MutatingOps /\ last'.res = "ok"

InSyncAfter ==
    InSync(file', [rsvpEntries |-> rsvpEntries', events |-> events',
                   waitlist |-> waitlist', reminders |-> reminders'])

\* C6: after every mutating operation that returns successfully the
\* persisted snapshot holds exactly what the in-memory collections hold.
C6_InSyncAfterSuccess == [][Succeeded => InSyncAfter]_vars

\* C6 amended: as C6 for every successful mutating operation that wrote the
\* snapshot; notifyWaitlist with no free place and batchUpdateRsvps with no
\* update return without writing, and leave memory and file as they were.
C6_InSyncAfterSuccessfulWrite ==
    [][Succeeded =>
        \/ last'.saves >= 1 /\ InSyncAfter
        \/ /\ last'.saves = 0
           /\ last'.op \in {"notifyWaitlist", "batchUpdateRsvps"}
           /\ last'.ret \in {[players |-> <<>>], [entries |-> <<>>]}
           /\ file' = file
           /\ initialized => CollectionsUnchanged
           /\ ~initialized => CollectionsLoaded]_vars

C6_Witness ==
    /\ last.op = "notifyWaitlist" /\ last.res = "ok" /\ last.saves = 1
    /\ last.ret # [players |-> <<>>]
    /\ InSync(file, Data(Self))

\* C7: save(snapshot) followed by load() gives back collections equal to
\* the saved ones, every date field as a date of the same kind and instant.
C7_RoundTrip ==
    [][last'.op = "load" => CollectionsUnchanged]_vars

SyncReads == {"getRsvpStats", "getConfirmedAttendees", "getEventStats", "searchRsvps"}
Reads == SyncReads \cup {"getEvent"}

\* the call of the step invoked load() and load() failed
LoadFailed == last'.loadFailed

\* C8: the first call on a new instance whose storage holds a snapshot,
\* whichever operation it is, loads the snapshot into the four collections
\* before it computes its result; later calls do not load.
C8_FirstCallLoads ==
    [][IsCall =>
        /\ (~initialized /\ file.exists /\ ~LoadFailed)
             => /\ initialized' /\ last'.loads = 1
                /\ last'.op \in Reads => CollectionsLoaded
                /\ last'.op = "getRsvpStats"
                     => last'.ret.stats.total = Len(load(file).rsvpEntries)
        /\ initialized => last'.loads = 0]_vars

\* C9: when load() fails in a call, the call fails with RsvpError, and no
\* later call on the same instance invokes load() again.
C9_NoLoadAfterFailure ==
    [][IsCall =>
        /\ LoadFailed => last'.res = "RsvpError"
        /\ last.loadFailed => last'.loads = 0]_vars

\* C9 amended: when load() fails in a call, the call fails with RsvpError
\* and the instance stays uninitialized with its collections and the file
\* as they were; every later call that initializes (all but the synchronous
\* reads) invokes load() again, once, until a load has succeeded, and no
\* call invokes load() after that.
C9_LoadRetriedUntilSuccess ==
    [][IsCall =>
        /\ LoadFailed => /\ last'.res = "RsvpError" /\ ~initialized'
                         /\ CollectionsUnchanged /\ file' = file
        /\ (~initialized /\ last'.op \notin SyncReads) => last'.loads = 1
        /\ (~initialized /\ last'.op \in SyncReads) => (last'.loads = 0 /\ ~initialized')
        /\ initialized => (last'.loads = 0 /\ initialized')]_vars

C9_Witness ==
    /\ last.op = "getEvent" /\ last.res = "RsvpError" /\ last.loadFailed
    /\ ~initialized /\ file.exists /\ events = <<>>

\* C10: every RSVP entry's eventId is the id of a stored event.
C10_EntriesReferToStoredEvents ==
    \A i \in DOMAIN rsvpEntries : MapHas(events, rsvpEntries[i][2].eventId)

\* the step is a cleanupData call with neither archive nor includeRSVPs
BareCleanup == IsCall /\ last'.op = "cleanupData" /\ last'.status = "delete"

\* every RSVP entry in memory and in the persisted snapshot refers to an
\* event stored beside it
NoOrphans ==
    /\ C10_EntriesReferToStoredEvents
    /\ \A i \in DOMAIN file.rsvpEntries :
          MapHas(file.events, file.rsvpEntries[i][2].eventId)

\* C10 amended: every call other than a cleanupData with neither archive
\* nor includeRSVPs, deleteEvent included, keeps every RSVP entry's eventId,
\* in memory and in the persisted snapshot, the id of a stored event.
C10_OnlyBareCleanupOrphans ==
    [][(NoOrphans /\ ~BareCleanup) => NoOrphans']_vars

C10_Witness ==
    /\ last.op = "deleteEvent" /\ last.res = "ok" /\ last.wasFull
    /\ rsvpEntries = <<>> /\ events = <<>> /\ file.exists /\ file.rsvpEntries = <<>>

\* C11: a successful deleteEvent(E) removes exactly event E and the RSVP
\* entries of E from what the store holds, and leaves the other events, the
\* other entries and every waitlist and reminder, those of E included, as
\* they were; a getEventRsvps(E) that follows fails with the ValidationError
\* 'Event not found' and a searchRsvps({}) that follows returns no entry of E.
C11_DeleteEventFrame ==
    [][IsCall =>
        /\ (last'.op = "deleteEvent" /\ last'.res = "ok")
             => /\ MapHas(Visible.events, last'.eventId)
                /\ events' = SelectSeq(Visible.events, LAMBDA pair : pair[1] # last'.eventId)
                /\ rsvpEntries' = SelectSeq(Visible.rsvpEntries,
                                            LAMBDA pair : pair[2].eventId # last'.eventId)
                /\ waitlist' = Visible.waitlist
                /\ reminders' = Visible.reminders
        /\ (last.op = "deleteEvent" /\ last.res = "ok" /\ last'.eventId = last.eventId
               /\ last'.op = "getEventRsvps")
             => (last'.res = "ValidationError" /\ last'.msg = "Event not found")
        /\ (last.op = "deleteEvent" /\ last.res = "ok" /\ last'.op = "searchRsvps")
             => (last'.res = "ok"
                   => \A i \in DOMAIN last'.ret.entries :
                         last'.ret.entries[i].eventId # last.eventId)]_vars

C11_Witness ==
    /\ last.op = "deleteEvent" /\ last.res = "ok" /\ last.wasFull
    /\ MapHas(waitlist, last.eventId) /\ MapHas(reminders, last.eventId)
    /\ rsvpEntries # <<>> /\ events # <<>>

\* C12: no player is on the waitlist of an event and holds an RSVP entry for
\* that event.
C12_WaitlistDisjointFromRsvps ==
    \A i \in DOMAIN waitlist : \A j \in DOMAIN waitlist[i][2] :
        \A r \in DOMAIN rsvpEntries :
            ~ /\ rsvpEntries[r][2].eventId = waitlist[i][1]
              /\ rsvpEntries[r][2].player.id = waitlist[i][2][j].player.id

\* the number of 'Yes' entries the store holds, over all events
StoreWideYes(entries) == Len(SelectSeq(entries, LAMBDA pair : pair[2].status = "Yes"))

\* the waitlist of an event, empty when the event has none
WaitlistOf(lists, eventId) == IF MapHas(lists, eventId) THEN MapGet(lists, eventId) ELSE <<>>

\* C13: notifyWaitlist(E) on a stored event takes k = E.maxPlayers minus the
\* store-wide number of 'Yes' entries; with k <= 0 it returns the empty list
\* and changes nothing; otherwise it stamps notifiedAt on the first
\* min(k, length) entries of the waitlist of E, returns their players in that
\* order, and leaves the rest of the waitlist, its length and order, and the
\* RSVP entries as they were.
C13_NotifyWaitlist ==
    [][(IsCall /\ last'.op = "notifyWaitlist" /\ MapHas(Visible.events, last'.eventId)) =>
        LET E == last'.eventId
            k == MapGet(Visible.events, E).maxPlayers - StoreWideYes(Visible.rsvpEntries)
            before == WaitlistOf(Visible.waitlist, E)
            after == WaitlistOf(waitlist', E)
            n == IF k <= Len(before) THEN k ELSE Len(before)
        IN /\ last'.res = "ok"
           /\ rsvpEntries' = Visible.rsvpEntries
           /\ events' = Visible.events
           /\ reminders' = Visible.reminders
           /\ k <= 0 => (last'.ret = [players |-> <<>>] /\ waitlist' = Visible.waitlist
                          /\ file' = file)
           /\ k > 0 =>
                /\ last'.ret = [players |-> [i \in 1 .. n |-> before[i].player]]
                /\ Len(after) = Len(before)
                /\ \A i \in DOMAIN before :
                      after[i] = IF i <= n THEN [before[i] EXCEPT !.notifiedAt = DateObj(now)]
                                 ELSE before[i]
                /\ \A i \in DOMAIN Visible.waitlist :
                      Visible.waitlist[i][1] # E => waitlist'[i] = Visible.waitlist[i]
                /\ Len(waitlist') = Len(Visible.waitlist)]_vars

\* C14: cleanupData({maxAge: 0, archive: true}) called when a stored event
\* is dated one day before the current time marks that event archived, keeps
\* it stored and returns {events: 0, rsvps: 0}.
C14_ArchiveYesterdaysEvent ==
    [][(IsCall /\ last'.op = "cleanupData" /\ last'.args = CleanupOptions(0, TRUE, FALSE)) =>
        /\ last'.res = "ok"
        /\ last'.ret = [counts |-> [events |-> 0, rsvps |-> 0]]
        /\ \A i \in DOMAIN Visible.events :
              Visible.events[i][2].date = DateObj(now - 1)
                => /\ MapHas(events', Visible.events[i][1])
                   /\ MapGet(events', Visible.events[i][1]).archived]_vars

\* C15: cleanupData(options) treats exactly the events dated before now
\* minus maxAge days (30 when maxAge is not given): with archive they are
\* kept, marked archived and not counted, otherwise deleted and counted; with
\* includeRSVPs their RSVP entries are deleted and counted; the other events
\* and entries stay as they were.
C15_CleanupExactlyExpired ==
    [][(IsCall /\ last'.op = "cleanupData") =>
        LET options == last'.args
            cutoff == now - (IF options.maxAge = NoMaxAge THEN 30 ELSE options.maxAge)
            old == {Visible.events[i][1] : i \in
                      {j \in DOMAIN Visible.events : Visible.events[j][2].date.t < cutoff}}
            oldEntries == SelectSeq(Visible.rsvpEntries, LAMBDA pair : pair[2].eventId \in old)
        IN /\ last'.res = "ok"
           /\ events' = IF options.archive
                         THEN [i \in DOMAIN Visible.events |->
                                 IF Visible.events[i][1] \in old
                                 THEN <<Visible.events[i][1],
                                        [Visible.events[i][2] EXCEPT !.archived = TRUE]>>
                                 ELSE Visible.events[i]]
                         ELSE SelectSeq(Visible.events, LAMBDA pair : pair[1] \notin old)
           /\ rsvpEntries' = IF options.includeRSVPs
                              THEN SelectSeq(Visible.rsvpEntries,
                                             LAMBDA pair : pair[2].eventId \notin old)
                              ELSE Visible.rsvpEntries
           /\ last'.ret = [counts |->
                             [events |-> IF options.archive THEN 0 ELSE Cardinality(old),
                              rsvps |-> IF options.includeRSVPs THEN Len(oldEntries) ELSE 0]]]_vars

\* the event has one of the defects createEvent must reject: a date before
\* the current time, a maxPlayers that is not an integer >= 1, or a name,
\* description or location that is empty once trimmed
Defective(event, t) ==
    \/ event.date.t < t
    \/ ~(IsInteger(event.maxPlayers) /\ event.maxPlayers >= 1)
    \/ \E text \in {event.name, event.description, event.location} : text \in {"", " "}

\* C16: createEvent rejects a defective event with a ValidationError and
\* stores nothing; every event it leaves stored has an integer maxPlayers
\* that is at least 1.
C16_CreateEventValidates ==
    [][(IsCall /\ last'.op = "createEvent") =>
        /\ Defective(last'.args, now)
             => (last'.res = "ValidationError" /\ events' = Visible.events /\ file' = file)
        /\ last'.res = "ok"
             => (~Defective(last'.args, now) /\ MapGet(events', last'.eventId) = last'.args)
        /\ \A i \in DOMAIN events' :
              IsInteger(events'[i][2].maxPlayers) /\ events'[i][2].maxPlayers >= 1]_vars

C16_Witness ==
    /\ last.op = "createEvent" /\ last.res = "ValidationError"
    /\ last.args.maxPlayers = Half(3)
    /\ events # <<>> /\ ~MapHas(events, "e2")

\* a batch item is valid for a store: its event is stored, its player id is
\* the player of a stored RSVP entry, and updateRsvp accepts it (a status of
\* the three, and for 'Yes' a store-wide 'Yes' count below maxPlayers)
ItemValid(entries, evs, update) ==
    /\ MapHas(evs, update.eventId)
    /\ \E i \in DOMAIN entries : entries[i][2].player.id = update.playerId
    /\ update.status \in {"Yes", "No", "Maybe"}
    /\ update.status = "Yes" => StoreWideYes(entries) < MapGet(evs, update.eventId).maxPlayers

\* the entry a valid batch item writes
ItemEntry(entries, update, t) ==
    LET first == CHOOSE i \in DOMAIN entries :
                    /\ entries[i][2].player.id = update.playerId
                    /\ \A j \in 1 .. i - 1 : entries[j][2].player.id # update.playerId
    IN [eventId |-> update.eventId, player |-> entries[first][2].player,
        status |-> update.status, updatedAt |-> DateObj(t), notes |-> Undefined]

\* the batch applied in list order up to its first invalid item
RECURSIVE ExpectedBatch(_, _, _, _, _, _)
ExpectedBatch(entries, evs, updates, i, t, results) ==
    IF i > Len(updates) THEN [entries |-> entries, results |-> results, failed |-> FALSE]
    ELSE IF ~ItemValid(entries, evs, updates[i])
        THEN [entries |-> entries, results |-> results, failed |-> TRUE]
    ELSE LET entry == ItemEntry(entries, updates[i], t)
             key == updates[i].eventId \o "-" \o updates[i].playerId
             at == {j \in DOMAIN entries : entries[j][1] = key}
             written == IF at = {} THEN Append(entries, <<key, entry>>)
                        ELSE [j \in DOMAIN entries |->
                                IF j \in at THEN <<key, entry>> ELSE entries[j]]
         IN ExpectedBatch(written, evs, updates, i + 1, t, Append(results, entry))

\* C17: batchUpdateRsvps applies its updates in list order up to the first
\* invalid one; with an invalid item it fails, the updates before it are in
\* memory and in the persisted snapshot and no later update is applied; with
\* valid items only it returns the entries written, one per update, in
\* order.
C17_BatchStopsAtFirstInvalid ==
    [][(IsCall /\ last'.op = "batchUpdateRsvps") =>
        LET expected == ExpectedBatch(Visible.rsvpEntries, Visible.events,
                                      last'.args.updates, 1, now, <<>>)
        IN /\ rsvpEntries' = expected.entries
           /\ events' = Visible.events
           /\ expected.failed => last'.res \in {"ValidationError", "RsvpError"}
           /\ ~expected.failed => (last'.res = "ok" /\ last'.ret = [entries |-> expected.results])
           /\ IF expected.results = <<>> THEN file' = file
              ELSE InSync(file', [rsvpEntries |-> rsvpEntries', events |-> events',
                                  waitlist |-> waitlist', reminders |-> reminders'])]_vars

\* C18: every stored RSVP entry has one of the three statuses, and
\* getRsvpStats returns confirmed + declined + maybe = total, where total is
\* the number of stored entries over all events and 0 <= confirmed <= total.
C18_StatsAddUp ==
    [][/\ \A i \in DOMAIN rsvpEntries' : rsvpEntries'[i][2].status \in {"Yes", "No", "Maybe"}
       /\ (IsCall /\ last'.op = "getRsvpStats") =>
            LET stats == last'.ret.stats
            IN /\ last'.res = "ok"
               /\ stats.confirmed + stats.declined + stats.maybe = stats.total
               /\ stats.total = Len(rsvpEntries)
               /\ stats.confirmed = StoreWideYes(rsvpEntries)
               /\ 0 <= stats.confirmed /\ stats.confirmed <= stats.total
               /\ UNCHANGED <<rsvpEntries, events, waitlist, reminders, file>>]_vars

C18_Witness ==
    /\ last.op = "getRsvpStats" /\ last.res = "ok"
    /\ last.ret.stats.total = 2 /\ last.ret.stats.confirmed = 1 /\ last.ret.stats.maybe = 1
    /\ Len(events) = 2

\* the step is a read on an initialized store
IsRead == IsCall /\ initialized /\ last'.op \in ReadOps

\* C19: getEvent, listEvents, searchRsvps, getRsvpStats,
\* getConfirmedAttendees, getEventRsvps and getEventStats on an initialized
\* store leave the four collections and the snapshot unchanged, and a read
\* that repeats the call before it returns what that call returned
C19_ReadsRepeatable ==
    [][IsRead =>
        /\ UNCHANGED <<rsvpEntries, events, waitlist, reminders, file>>
        /\ last'.again =>
               /\ last'.res = last.res /\ last'.msg = last.msg
               /\ last'.ret = last.ret]_vars

\* the statistics of an event without the days left until it
WithoutDays(ret) == [ret.eventStats EXCEPT !.daysUntilEvent = 0]

\* C19 (amended): the reads leave the collections and the snapshot
\* unchanged, and a repeated read returns what the call before it returned,
\* but for the daysUntilEvent of getEventStats, which follows the clock
C19_ReadsRepeatableButClock ==
    [][IsRead =>
        /\ UNCHANGED <<rsvpEntries, events, waitlist, reminders, file>>
        /\ last'.again =>
               /\ last'.res = last.res /\ last'.msg = last.msg
               /\ IF last'.op = "getEventStats" /\ last'.res = "ok"
                  THEN /\ WithoutDays(last'.ret) = WithoutDays(last.ret)
                       /\ last'.ret.eventStats.daysUntilEvent
                              = last'.ret.eventStats.event.date.t - now
                  ELSE last'.ret = last.ret]_vars

\* a repeated listEvents returned two events
C19_Witness ==
    /\ last.again /\ last.op = "listEvents" /\ last.res = "ok"
    /\ Len(last.ret.events) = 2

\* the entry passes every filter the options give
Matches(e, opts) ==
    /\ opts.eventId # Undefined => e.eventId = opts.eventId
    /\ opts.playerName # Undefined
          => Includes(Lower(e.player.name), Lower(opts.playerName))
    /\ opts.status # Undefined => e.status = opts.status
    /\ (opts.startDate.k # "undefined" /\ opts.eventId # Undefined
          /\ MapHas(events, opts.eventId))
          => MapGet(events, opts.eventId).date.t >= opts.startDate.t

\* the sequence holds each element of the set once, by ascending updatedAt
AscendingListOf(seq, set) ==
    /\ Len(seq) = Cardinality(set)
    /\ {seq[i] : i \in DOMAIN seq} = set
    /\ \A i, j \in DOMAIN seq : i < j => seq[i].updatedAt.t <= seq[j].updatedAt.t

\* C20: searchRsvps returns exactly the stored entries that match every
\* given filter (eventId, case-insensitive part of the player's name, status,
\* and the event's date >= startDate when eventId names a stored event),
\* by ascending updatedAt; empty options return every stored entry
C20_SearchReturnsMatches ==
    [][(IsCall /\ last'.op = "searchRsvps") =>
        LET opts == last'.args
            stored == {rsvpEntries[i][2] : i \in DOMAIN rsvpEntries}
        IN /\ last'.res = "ok"
           /\ AscendingListOf(last'.ret.entries, {e \in stored : Matches(e, opts)})]_vars

\* the stored event with the fields the update supplies laid over it
Merged(event, update) ==
    [id |-> event.id,
     name |-> IF "name" \in update.has THEN update.name ELSE event.name,
     description |-> IF "description" \in update.has THEN update.description
                     ELSE event.description,
     date |-> IF "date" \in update.has THEN update.date ELSE event.date,
     location |-> IF "location" \in update.has THEN update.location ELSE event.location,
     maxPlayers |-> IF "maxPlayers" \in update.has THEN update.maxPlayers
                    ELSE event.maxPlayers,
     archived |-> event.archived]

\* C21: updateEvent on a stored event validates the merge of the stored
\* event and the supplied fields: an invalid merge (also one whose stored
\* date has passed while only another field is supplied) fails with a
\* ValidationError and leaves the stored event as it was; otherwise the
\* stored event becomes the merge
C21_UpdateEventRevalidates ==
    [][(IsCall /\ last'.op = "updateEvent" /\ MapHas(Visible.events, last'.eventId)) =>
        LET old == MapGet(Visible.events, last'.eventId)
            merge == Merged(old, last'.args)
        IN IF Defective(merge, now)
           THEN last'.res = "ValidationError" /\ events' = Visible.events
           ELSE last'.res = "ok" /\ MapGet(events', last'.eventId) = merge]_vars

\* the player snapshot carries the fields the update supplies
Carries(player, update) ==
    /\ "name" \in update.has => player.name = update.name
    /\ "email" \in update.has => player.email = update.email

\* C22: a successful updatePlayer(p, fields) gives every entry of player p,
\* in every event, one and the same updated player snapshot, keeps the
\* eventId and the status of each of them and keeps the entries of every
\* other player; updatePlayer fails with a ValidationError when no entry has
\* player id p
C22_UpdatePlayerRewritesEverySnapshot ==
    [][(IsCall /\ last'.op = "updatePlayer") =>
        LET old == Visible.rsvpEntries
            p == last'.playerId
            mine == {i \in DOMAIN old : old[i][2].player.id = p}
        IN /\ mine = {} => last'.res = "ValidationError"
           /\ last'.res = "ok" =>
                /\ DOMAIN rsvpEntries' = DOMAIN old
                /\ \A i \in DOMAIN old \ mine : rsvpEntries'[i] = old[i]
                /\ \A i \in mine :
                      /\ rsvpEntries'[i][1] = old[i][1]
                      /\ rsvpEntries'[i][2].eventId = old[i][2].eventId
                      /\ rsvpEntries'[i][2].status = old[i][2].status
                      /\ rsvpEntries'[i][2].player.id = p
                      /\ Carries(rsvpEntries'[i][2].player, last'.args)
                /\ \A i, j \in mine : rsvpEntries'[i][2].player = rsvpEntries'[j][2].player]_vars

\* updatePlayer renamed a player who has entries in two events, next to
\* the entry of another player
C22_Witness ==
    /\ last.op = "updatePlayer" /\ last.res = "ok" /\ last.args.name = "Zed"
    /\ \E i, j, k \in DOMAIN rsvpEntries :
          /\ rsvpEntries[i][2].player.id = "p1" /\ rsvpEntries[j][2].player.id = "p1"
          /\ rsvpEntries[i][2].eventId # rsvpEntries[j][2].eventId
          /\ rsvpEntries[k][2].player.id = "p2"

\* the positions of the entries of the pair (eventId, playerId)
EntriesOf(entries, eventId, playerId) ==
    {i \in DOMAIN entries :
        entries[i][2].eventId = eventId /\ entries[i][2].player.id = playerId}

\* C23: the store holds at most one entry for each pair (eventId, playerId),
\* and a successful updateRsvp for a pair that has an entry puts the new
\* status, notes and updatedAt in the place of that entry, keeps every other
\* entry and keeps the number of entries
C23_OneEntryPerPair ==
    [][/\ \A i, j \in DOMAIN rsvpEntries' :
            (/\ rsvpEntries'[i][2].eventId = rsvpEntries'[j][2].eventId
             /\ rsvpEntries'[i][2].player.id = rsvpEntries'[j][2].player.id) => i = j
       /\ (IsCall /\ last'.op = "updateRsvp" /\ last'.res = "ok") =>
            LET old == Visible.rsvpEntries
            IN \A i \in EntriesOf(old, last'.eventId, last'.playerId) :
                  /\ Len(rsvpEntries') = Len(old)
                  /\ \A j \in DOMAIN old \ {i} : rsvpEntries'[j] = old[j]
                  /\ rsvpEntries'[i][2] =
                        [eventId |-> last'.eventId, player |-> last'.args.player,
                         status |-> last'.status, updatedAt |-> DateObj(now),
                         notes |-> last'.args.notes]]_vars

\* the first of two entries was replaced after the second one was written
C23_Witness ==
    /\ last.op = "updateRsvp" /\ last.res = "ok" /\ last.args.notes = "late"
    /\ Len(rsvpEntries) = 2
    /\ rsvpEntries[1][2].player.id = last.playerId
    /\ rsvpEntries[1][2].updatedAt.t > rsvpEntries[2][2].updatedAt.t

\* C24: cancelRsvp(E, p) fails with a ValidationError and changes nothing
\* when the pair has no entry; otherwise it deletes that entry and keeps
\* every other entry, the events, the waitlists and the reminders; and the
\* updateRsvp(E, q, 'Yes') that follows the cancellation of a 'Yes' entry of
\* an event with fewer 'Yes' entries than places is not refused for capacity
C24_CancelDeletesOneEntry ==
    [][/\ (IsCall /\ last'.op = "cancelRsvp") =>
            LET old == Visible.rsvpEntries
                mine == EntriesOf(old, last'.eventId, last'.playerId)
            IN /\ events' = Visible.events /\ waitlist' = Visible.waitlist
               /\ reminders' = Visible.reminders
               /\ IF mine = {}
                  THEN last'.res = "ValidationError" /\ rsvpEntries' = old /\ file' = file
                  ELSE /\ last'.res = "ok"
                       /\ rsvpEntries' = SelectSeq(old, LAMBDA e :
                              ~(e[2].eventId = last'.eventId
                                  /\ e[2].player.id = last'.playerId))
       /\ (/\ IsCall /\ last'.op = "updateRsvp" /\ last'.status = "Yes"
           /\ last.op = "cancelRsvp" /\ last.res = "ok" /\ last.wasYes
           /\ last.eventId = last'.eventId /\ MapHas(events, last'.eventId)
           /\ EventYes(rsvpEntries, last'.eventId) < MapGet(events, last'.eventId).maxPlayers)
            => last'.msg # "Event is at maximum capacity"]_vars

\* C28: updateRsvp(E, p, 'Yes') of a player who holds a 'Yes' entry for E
\* is not refused for capacity
C28_ConfirmedPlayerNotRefused ==
    [][(/\ IsCall /\ last'.op = "updateRsvp" /\ last'.status = "Yes"
        /\ HoldsYes(Visible.rsvpEntries, last'.eventId, last'.playerId))
        => last'.msg # "Event is at maximum capacity"]_vars

\* the positions of the reminders that are due at time t and whose event is
\* stored
DueReminders(s, t) ==
    {i \in DOMAIN s.reminders :
        s.reminders[i][2].nextSendAt.t <= t /\ MapHas(s.events, s.reminders[i][1])}

\* C25: sendReminders returns exactly the stored events with a reminder
\* whose nextSendAt is <= now, sets lastSentAt = now and nextSendAt = now +
\* reminderInterval for each of them and leaves every other reminder as it
\* was; a reminder of d >= 1 days is not sent before d days have passed
\* since it was set up or sent, and with such reminders a second
\* sendReminders at the instant of the first returns no event
C25_SendRemindersWhenDue ==
    [][(IsCall /\ last'.op = "sendReminders") =>
        LET pre == Visible
            due == DueReminders(pre, now)
        IN /\ last'.res = "ok"
           /\ Len(last'.ret.events) = Cardinality(due)
           /\ {last'.ret.events[i] : i \in DOMAIN last'.ret.events}
                 = {MapGet(pre.events, pre.reminders[i][1]) : i \in due}
           /\ DOMAIN reminders' = DOMAIN pre.reminders
           /\ \A i \in DOMAIN pre.reminders :
                 reminders'[i] =
                    IF i \in due
                    THEN <<pre.reminders[i][1],
                           [eventId |-> pre.reminders[i][2].eventId,
                            lastSentAt |-> DateObj(now),
                            nextSendAt |-> DateObj(now + pre.reminders[i][2].reminderInterval),
                            reminderInterval |-> pre.reminders[i][2].reminderInterval]>>
                    ELSE pre.reminders[i]
           /\ \A i \in DOMAIN pre.reminders :
                 (/\ pre.reminders[i][2].reminderInterval >= 1
                  /\ now < pre.reminders[i][2].lastSentAt.t
                              + pre.reminders[i][2].reminderInterval)
                 => \A j \in DOMAIN last'.ret.events :
                       last'.ret.events[j].id # pre.reminders[i][1]
           /\ (/\ last.op = "sendReminders" /\ last.res = "ok" /\ last.args.at = now
               /\ \A i \in DOMAIN pre.reminders : pre.reminders[i][2].reminderInterval >= 1)
               => last'.ret.events = <<>>]_vars

\* C26: createEvent with a valid event whose id is already stored succeeds
\* and puts the new event (its maxPlayers and archived flag included) in
\* the place of the stored one, and keeps every RSVP entry, waitlist and
\* reminder
C26_CreateEventOverwrites ==
    [][(/\ IsCall /\ last'.op = "createEvent" /\ MapHas(Visible.events, last'.eventId)
        /\ ~Defective(last'.args, now))
        => /\ last'.res = "ok"
           /\ DOMAIN events' = DOMAIN Visible.events
           /\ \A i \in DOMAIN events' :
                 events'[i] = IF Visible.events[i][1] = last'.eventId
                              THEN <<last'.eventId, last'.args>>
                              ELSE Visible.events[i]
           /\ rsvpEntries' = Visible.rsvpEntries
           /\ waitlist' = Visible.waitlist
           /\ reminders' = Visible.reminders]_vars

\* createEvent replaced an event that has an RSVP entry, a waitlist and a
\* reminder, all of them older than the new event
C26_Witness ==
    /\ last.op = "createEvent" /\ last.res = "ok"
    /\ MapHas(reminders, "e1") /\ MapHas(waitlist, "e1")
    /\ \E i \in DOMAIN rsvpEntries :
          /\ rsvpEntries[i][2].eventId = "e1"
          /\ rsvpEntries[i][2].updatedAt.t + 1 < last.args.date.t

\* C27: createEvent with a date that is the current instant or earlier
\* fails with a ValidationError
C27_DateStrictlyInFuture ==
    [][(IsCall /\ last'.op = "createEvent" /\ last'.args.date.t <= now)
        => last'.res = "ValidationError"]_vars

\* C29: an updateRsvp or a cancelRsvp for the pair (E1, p1) leaves the entry
\* of every other pair (E2, p2) as it was, and addToWaitlist(E1, p1) is not
\* refused for an existing RSVP when the pair (E1, p1) has no entry
C29_PairsDoNotShareEntries ==
    [][/\ (IsCall /\ last'.op \in {"updateRsvp", "cancelRsvp"}) =>
            \A i \in DOMAIN Visible.rsvpEntries :
               LET e == Visible.rsvpEntries[i][2]
               IN (e.eventId # last'.eventId \/ e.player.id # last'.playerId)
                     => \E j \in DOMAIN rsvpEntries' : rsvpEntries'[j][2] = e
       /\ (/\ IsCall /\ last'.op = "addToWaitlist"
           /\ EntriesOf(Visible.rsvpEntries, last'.eventId, last'.playerId) = {})
            => last'.msg # "Player already has an RSVP for this event"]_vars

\* C30: when public operations are started on a store before earlier ones
\* have completed, initialization takes effect once: after an operation has
\* applied a mutation the collections are not replaced by a loaded snapshot,
\* every event whose createEvent has returned is still in memory, and every
\* snapshot handed to storage.save afterwards holds it
C30_InitializationTakesEffectOnce ==
    /\ [][(\E i \in DOMAIN inflight.ops :
              /\ Len(inflight'.ops) = Len(inflight.ops)
              /\ inflight.ops[i].pc = "loading"
              /\ inflight'.ops[i].pc = "ready") => ~inflight.mutated]_vars
    /\ [](\A id \in inflight.done : MapHas(events, id))
    /\ [][\A i \in DOMAIN inflight.ops :
              /\ Len(inflight'.ops) = Len(inflight.ops)
              /\ inflight.ops[i].pc = "ready"
              /\ inflight'.ops[i].pc = "saving"
              => \A id \in inflight.done : MapHas(inflight'.ops[i].content.events, id)]_vars

\* C33: a player id appears at most once in the waitlist of an event, and a
\* notifyWaitlist call never returns the same player twice
C33_WaitlistHoldsPlayerOnce ==
    /\ \A i \in DOMAIN waitlist :
           \A j, k \in DOMAIN waitlist[i][2] :
               j # k => waitlist[i][2][j].player.id # waitlist[i][2][k].player.id
    /\ last.op = "notifyWaitlist" /\ last.res = "ok" =>
           \A j, k \in DOMAIN last.ret.players :
               j # k => last.ret.players[j].id # last.ret.players[k].id

\* the step settles or suspends an updateRsvp call that has passed
\* ensureInitialized
UpdateRsvpResumed ==
    /\ \E i \in DOMAIN inflight.ops : inflight.ops[i].pc = "ready"
    /\ Len(inflight'.ops) <= Len(inflight.ops)
    /\ inflight' # inflight

\* C31: on an initialized store holding one event, overlapping
\* updateRsvp(E, p, 'Yes') calls never leave more than E.maxPlayers Yes
\* entries in memory, and the call of a player without a Yes entry that
\* finds E full fails with a ValidationError and stores nothing
C31_OverlappingYesWithinCapacity ==
    /\ [](MapHas(events, "e1") =>
             Len(YesEntries(Self)) <= MapGet(events, "e1").maxPlayers)
    /\ [][UpdateRsvpResumed /\ last'.status = "Yes" /\ MapHas(events, "e1")
          /\ Len(YesEntries(Self)) >= MapGet(events, "e1").maxPlayers
          /\ ~HoldsYes(rsvpEntries, "e1", last'.playerId)
          => last'.res = "ValidationError" /\ rsvpEntries' = rsvpEntries]_vars

====
